---- MODULE Spec2Model ----
(***************************************************************************)
(* A model of Setup.py, the BAGEL environment setup script.                *)
(*                                                                         *)
(* Text is modelled as a sequence of atoms.  An atom is either one         *)
(* character that quoting or tokenizing treats specially (space, tab,      *)
(* quotes, backslash, shell metacharacters) or a run of ordinary           *)
(* characters.  A captured process output is a record holding the set of   *)
(* substrings the script searches for; the empty set is the empty string.  *)
(*                                                                         *)
(* Spec is a whole run of main: backend selection, run_setup and the       *)
(* installation pipeline of install_requirements, one action per step      *)
(* that runs a command or asks the operator.  SpecExec is run_command on   *)
(* its own, over small commands and every launch outcome.  SpecInt is a    *)
(* whole run that the operator may interrupt at any point.  The variables  *)
(* step, events, issued, last_call, hint_out, warnings, fb_installed,      *)
(* verdict and clean record what the run has done; the script does not     *)
(* read them.                                                              *)
(***************************************************************************)
EXTENDS Integers, Sequences, FiniteSets, TLC

\* ------------------------------------------------------------------------
\* Bounds of the command space explored for run_command.
MaxArgs == 2
MaxArgLen == 1
MaxStrLen == 3

\* ------------------------------------------------------------------------
\* Text helpers.

DQ == "\""
SQ == "'"
BS == "\\"
SP == " "
TAB == "\t"

\* Characters outside shlex's safe set [A-Za-z0-9_@%+=:,./-] appear only as
\* atoms of their own.
UnsafeAtoms == {SP, TAB, DQ, SQ, BS, ">", "<", ";", "(", ")", "{", "}"}

Whitespace == {SP, TAB}

RECURSIVE Repeat(_, _)
Repeat(a, n) == IF n <= 0 THEN <<>> ELSE <<a>> \o Repeat(a, n - 1)

RECURSIVE Concat(_)
Concat(ss) == IF ss = <<>> THEN <<>> ELSE Head(ss) \o Concat(Tail(ss))

RECURSIVE JoinSp(_)
\* " ".join(parts)
JoinSp(parts) ==
    IF parts = <<>> THEN <<>>
    ELSE IF Len(parts) = 1 THEN parts[1]
    ELSE parts[1] \o <<SP>> \o JoinSp(Tail(parts))

Contains(s, a) == \E i \in 1..Len(s) : s[i] = a

\* Captured text: None, or a string known by the substrings it contains.
NoneTxt == [isNone |-> TRUE, marks |-> {}]
Txt(m) == [isNone |-> FALSE, marks |-> m]
EmptyTxt == Txt({})
\* `t or ""`
OrEmpty(t) == IF t.isNone \/ t.marks = {} THEN EmptyTxt ELSE t
\* truthiness of a str
Truthy(t) == ~t.isNone /\ t.marks # {}
Has(t, m) == ~t.isNone /\ m \in t.marks

\* ------------------------------------------------------------------------
\* subprocess.list2cmdline, as called by run_command and the pipeline.

RECURSIVE l2c_chars(_, _, _, _)
\* The loop over the characters of one argument; nbs is len(bs_buf).
l2c_chars(arg, i, nbs, needquote) ==
    IF i > Len(arg)
    THEN Repeat(BS, nbs) \o (IF needquote THEN Repeat(BS, nbs) \o <<DQ>> ELSE <<>>)
    ELSE IF arg[i] = BS
    THEN l2c_chars(arg, i + 1, nbs + 1, needquote)
    ELSE IF arg[i] = DQ
    THEN Repeat(BS, 2 * nbs) \o <<BS, DQ>> \o l2c_chars(arg, i + 1, 0, needquote)
    ELSE Repeat(BS, nbs) \o <<arg[i]>> \o l2c_chars(arg, i + 1, 0, needquote)

l2c_arg(arg) ==
    LET needquote == Contains(arg, SP) \/ Contains(arg, TAB) \/ arg = <<>>
    IN (IF needquote THEN <<DQ>> ELSE <<>>) \o l2c_chars(arg, 1, 0, needquote)

list2cmdline(seq) == JoinSp([i \in 1..Len(seq) |-> l2c_arg(seq[i])])

\* ------------------------------------------------------------------------
\* shlex.quote, as called by the pipeline for shell strings.

RECURSIVE sq_escape(_)
\* s.replace("'", "'\"'\"'")
sq_escape(s) ==
    IF s = <<>> THEN <<>>
    ELSE (IF Head(s) = SQ THEN <<SQ, DQ, SQ, DQ, SQ>> ELSE <<Head(s)>>)
         \o sq_escape(Tail(s))

shlex_quote(s) ==
    IF s = <<>> THEN <<SQ, SQ>>
    ELSE IF \A i \in 1..Len(s) : s[i] \notin UnsafeAtoms THEN s
    ELSE <<SQ>> \o sq_escape(s) \o <<SQ>>

\* ------------------------------------------------------------------------
\* shlex.split (posix, whitespace_split, no comments), as called by
\* run_command for a shell string run without a shell.  The result is
\* [ok |-> TRUE, toks |-> tokens] or, where shlex raises ValueError
\* (no closing quotation, no escaped character), [ok |-> FALSE, toks |-> <<>>].

RECURSIVE shlex_read(_, _, _, _, _, _, _)
shlex_read(s, i, state, escapedstate, token, quoted, toks) ==
    LET emit == IF token # <<>> \/ quoted THEN Append(toks, token) ELSE toks
    IN
    IF i > Len(s)
    THEN IF state \in {DQ, SQ, BS}
         THEN [ok |-> FALSE, toks |-> <<>>]
         ELSE [ok |-> TRUE, toks |-> emit]
    ELSE LET c == s[i] IN
    CASE state = SP ->
            IF c \in Whitespace
            THEN shlex_read(s, i + 1, SP, escapedstate, <<>>, FALSE, emit)
            ELSE IF c = BS
            THEN shlex_read(s, i + 1, BS, "a", token, quoted, toks)
            ELSE IF c \in {DQ, SQ}
            THEN shlex_read(s, i + 1, c, escapedstate, token, quoted, toks)
            ELSE shlex_read(s, i + 1, "a", escapedstate, <<c>>, quoted, toks)
      [] state \in {DQ, SQ} ->
            IF c = state
            THEN shlex_read(s, i + 1, "a", escapedstate, token, TRUE, toks)
            ELSE IF c = BS /\ state = DQ
            THEN shlex_read(s, i + 1, BS, state, token, TRUE, toks)
            ELSE shlex_read(s, i + 1, state, escapedstate, Append(token, c), TRUE, toks)
      [] state = BS ->
            LET keep == IF escapedstate \in {DQ, SQ} /\ c # BS /\ c # escapedstate
                        THEN <<BS>> ELSE <<>>
            IN shlex_read(s, i + 1, escapedstate, escapedstate,
                          token \o keep \o <<c>>, quoted, toks)
      [] OTHER ->
            IF c \in Whitespace
            THEN shlex_read(s, i + 1, SP, escapedstate, <<>>, FALSE, emit)
            ELSE IF c \in {DQ, SQ}
            THEN shlex_read(s, i + 1, c, escapedstate, token, quoted, toks)
            ELSE IF c = BS
            THEN shlex_read(s, i + 1, BS, "a", token, quoted, toks)
            ELSE shlex_read(s, i + 1, "a", escapedstate, Append(token, c), quoted, toks)

shlex_split(s) == shlex_read(s, 1, SP, "a", <<>>, FALSE, <<>>)

\* ------------------------------------------------------------------------
\* BAGELSetup.run_command.
\*
\* command is [type |-> "list", val |-> <<arg, ...>>], [type |-> "str",
\* val |-> text] or [type |-> "other", val |-> <<>>].  outcome is what
\* subprocess.Popen and communicate() do with the launched command:
\* kind "exit0" or "nonzero" (the process ran; out and err are what it wrote),
\* "notfound" (FileNotFoundError; filename tells whether e.filename is set,
\* which it is not when CreateProcess fails on Windows) or "error" (any other
\* exception; msg is str(e)).  The result holds the returned tuple, or raised # "none" when an
\* exception leaves run_command.

RcReturn(ok, out, err, launch) ==
    [raised |-> "none", succeeded |-> ok, stdout |-> out, stderr |-> err,
     launch |-> launch]

RcRaise(exc) ==
    [raised |-> exc, succeeded |-> FALSE, stdout |-> NoneTxt, stderr |-> NoneTxt,
     launch |-> "none"]

\* Lines 70 and 74-76: the command as it is logged.
command_to_log(command, shell) ==
    CASE command.type = "list" /\ shell -> list2cmdline(command.val)
      [] command.type = "list" /\ ~shell ->
            JoinSp([i \in 1..Len(command.val) |->
                       IF Contains(command.val[i], SP)
                       THEN <<DQ>> \o command.val[i] \o <<DQ>>
                       ELSE command.val[i]])
      [] OTHER -> command.val

\* str.split() of a text yields no word.
NoWords(s) == \A i \in 1..Len(s) : s[i] \in Whitespace

\* Lines 101-108: the name reported by the FileNotFoundError handler can be
\* computed, unless it is word 0 of a blank command line (IndexError).
not_found_name_ok(popen_arg, shell, log, outcome) ==
    \/ outcome.filename
    \/ ~shell /\ popen_arg # <<>>
    \/ log = <<>>
    \/ ~NoWords(log)

\* Lines 84-112: the try block around Popen.  An empty argument list never
\* starts a process: Popen fails on it with IndexError.
rc_launch(popen_arg, capture_output, check, shell, log, outcome) ==
    LET kind == IF ~shell /\ popen_arg = <<>> THEN "error" ELSE outcome.kind
        stdout == OrEmpty(IF capture_output THEN outcome.out ELSE NoneTxt)
        stderr == OrEmpty(IF capture_output THEN outcome.err ELSE NoneTxt)
    IN CASE kind = "notfound" ->
                IF not_found_name_ok(popen_arg, shell, log, outcome)
                THEN RcReturn(FALSE, EmptyTxt, outcome.msg, kind)
                ELSE [RcRaise("IndexError") EXCEPT !.launch = kind]
         [] kind = "error" ->
                RcReturn(FALSE, EmptyTxt,
                         IF outcome.kind = "error" THEN outcome.msg
                         ELSE Txt({"list index out of range"}), kind)
         [] kind = "nonzero" /\ check -> RcReturn(FALSE, stdout, stderr, kind)
         [] OTHER -> RcReturn(TRUE, stdout, stderr, kind)

run_command(command, capture_output, check, shell, outcome) ==
    CASE command.type = "list" ->
            rc_launch(IF shell THEN list2cmdline(command.val) ELSE command.val,
                      capture_output, check, shell, command_to_log(command, shell),
                      outcome)
      [] command.type = "str" /\ shell ->
            rc_launch(command.val, capture_output, check, shell,
                      command_to_log(command, shell), outcome)
      [] command.type = "str" /\ ~shell ->
            LET split == shlex_split(command.val)
            IN IF split.ok
               THEN rc_launch(split.toks, capture_output, check, shell,
                              command_to_log(command, shell), outcome)
               ELSE RcRaise("ValueError")
      [] OTHER -> RcReturn(FALSE, EmptyTxt, Txt({"Invalid command type"}), "none")

\* ------------------------------------------------------------------------
\* The commands and outcomes run_command is explored on.

ExecAlphabet == {"a", SP, DQ, SQ, BS}

SeqsUpTo(S, n) == UNION {[1..k -> S] : k \in 0..n}

ExecCommands ==
    {[type |-> "list", val |-> v] : v \in SeqsUpTo(SeqsUpTo(ExecAlphabet, MaxArgLen), MaxArgs)}
    \cup {[type |-> "str", val |-> v] : v \in SeqsUpTo(ExecAlphabet, MaxStrLen)}
    \cup {[type |-> "other", val |-> <<>>]}

ExitOutcomes(kinds, outs, errs) ==
    [kind : kinds, out : outs, err : errs, msg : {EmptyTxt}, filename : {TRUE}]

FaultOutcomes(kinds) ==
    {o \in [kind : kinds, out : {NoneTxt}, err : {NoneTxt}, msg : {Txt({"Errno"})},
             filename : BOOLEAN] : o.kind = "notfound" \/ o.filename}

ExecOutcomes ==
    ExitOutcomes({"exit0", "nonzero"}, {EmptyTxt, Txt({"out"})}, {EmptyTxt, Txt({"err"})})
    \cup FaultOutcomes({"notfound", "error"})

\* ------------------------------------------------------------------------
\* Program constants of the installation pipeline.

T(a) == <<a>>
L(val) == [type |-> "list", val |-> val]
S(val) == [type |-> "str", val |-> val]

\* Line 427.
upgrade_pkgs == <<T("pip"), T("setuptools"), T("wheel")>>

\* A variant of pt_pip_specs with two tiers only.
pt_pip_specs_two_tiers(minor) ==
    IF minor >= 12 THEN <<T("torch"), T("torchvision"), T("torchaudio")>>
    ELSE <<<<"torch", ">", "=2.0.0">>, T("torchvision"), T("torchaudio")>>

\* Lines 453-460, keyed by sys.version_info.minor of the host interpreter.
pt_pip_specs(minor) ==
    IF minor >= 13 THEN <<T("torch"), T("torchvision"), T("torchaudio")>>
    ELSE IF minor = 12
    THEN <<<<"torch", ">", "=2.1">>, <<"torchvision", ">", "=0.16">>,
           <<"torchaudio", ">", "=2.1">>>>
    ELSE <<<<"torch", ">", "=2.0.0">>, T("torchvision"), T("torchaudio")>>

\* Lines 453-455: the warning printed before the framework packages are
\* installed.
pt_pip_warnings(minor) ==
    IF minor >= 13 THEN {"PyTorch stable wheels might be missing"} ELSE {}

\* Lines 484-485.
numpy_spec_to_try(minor) ==
    IF minor >= 12 THEN <<"numpy", ">", "=1.26.0">>
    ELSE IF minor = 11 THEN <<"numpy", ">", "=1.23.2">>
    ELSE <<"numpy", ">", "=1.21.2">>

\* Line 522.
critical_pkgs ==
    << <<"transformers", ">", "=4.30.0">>, T("accelerate"), T("diffusers"),
       T("huggingface_hub"), T("safetensors"), T("Pillow"), T("opencv-python"),
       T("gradio"), T("einops"), T("sentencepiece"), T("tokenizers"),
       T("scikit-image"), T("jupyterlab"), T("notebook") >>

\* Line 467.
verify_py_code ==
    <<"import", SP, "torch", ";", SP, "pv=torch.__version__", ";", SP,
      "ca=torch.cuda.is_available", "(", ")", ";", SP, "print", "(", "f", SQ,
      "PyTorch", SP, "{", "{", "pv", "}", "}", BS, "nCUDA", SP, "available:", SP,
      "{", "{", "ca", "}", "}", SQ, ")">>

\* The stages of install_requirements, in the order of the code.
StageOrder ==
    <<"ToolingUpgrade", "FrameworkInstall", "Verification", "ArrayLibraryPin",
      "BulkRequirements", "FallbackCriticalSet">>

\* Lines 509-514: the substrings looked for in the captured error text.
SigImpImporter == "AttributeError: module 'pkgutil' has no attribute 'ImpImporter'"
SigFlashAttn == "flash-attn"
SigWheels == "Could not build wheels"
SigSentencepiece == "sentencepiece"
SigFileNotFound == "FileNotFoundError"

\* ------------------------------------------------------------------------
\* Paths.  A path is the text of str(path); sep is the host's separator.

Sep(system) == IF system = "windows" THEN BS ELSE "/"

PathJoin(system, base, name) == base \o <<Sep(system), name>>

\* Lines 371-373: "msys" in path.lower() or "mingw" in path.lower().  The
\* atoms below are the path components of the model that contain a marker.
MarkerAtoms == {"msys64", "MinGW"}

is_msys_python_base(system, python_executable) ==
    /\ system = "windows"
    /\ python_executable # <<>>
    /\ \E i \in 1..Len(python_executable) : python_executable[i] \in MarkerAtoms

\* ------------------------------------------------------------------------
\* BAGELSetup._get_pip_executable_cmd_list (lines 364-380).

\* A variant of get_pip_executable_cmd_list without the string form.
get_pip_executable_cmd_list_as_list(obj) ==
    IF obj.use_conda
    THEN L(<<T("conda"), T("run"), T("-n"), obj.env_name, T("python"), T("-m"), T("pip")>>)
    ELSE L(<<obj.python_executable, T("-m"), T("pip")>>)

get_pip_executable_cmd_list(obj) ==
    IF obj.use_conda
    THEN L(<<T("conda"), T("run"), T("-n"), obj.env_name, T("python"), T("-m"), T("pip")>>)
    ELSE IF obj.system = "windows" /\ is_msys_python_base(obj.system, obj.python_executable)
    THEN S(<<DQ>> \o obj.python_executable \o <<DQ, SP, "-m", SP, "pip">>)
    ELSE L(<<obj.python_executable, T("-m"), T("pip")>>)

\* A call of run_command: the command and the keyword arguments.
Call(command, shell, check, cwd) ==
    [command |-> command, shell |-> shell, check |-> check,
     capture_output |-> TRUE, cwd |-> cwd]

\* A variant of pip_command that hands the conda command to run_command as
\* an argument list, without a shell.
pip_command_conda_direct(base, words, quote) ==
    IF base.type = "str"
    THEN [command |-> S(base.val \o <<SP>>
                        \o JoinSp([i \in 1..Len(words) |->
                                     IF quote[i] THEN shlex_quote(words[i]) ELSE words[i]])),
          shell |-> TRUE]
    ELSE [command |-> L(base.val \o words), shell |-> FALSE]

\* The shared shape of lines 393-405, 430-436 and 498-504: a pip subcommand
\* appended to the base command, in the form the base command asks for.
\* words are the arguments after the base; each is quoted with shlex.quote
\* when quote[i] holds (string form only).
pip_command(base, words, quote) ==
    IF base.type = "str"
    THEN [command |-> S(base.val \o <<SP>>
                        \o JoinSp([i \in 1..Len(words) |->
                                     IF quote[i] THEN shlex_quote(words[i]) ELSE words[i]])),
          shell |-> TRUE]
    ELSE IF base.val[1] = T("conda")
    THEN [command |-> S(list2cmdline(base.val \o words)), shell |-> TRUE]
    ELSE [command |-> L(base.val \o words), shell |-> FALSE]

\* Lines 383-409: the command _install_package_with_pip runs (extra_flags is
\* never passed, so the default flags are always added).
install_package_call(obj, package_spec) ==
    LET c == pip_command(get_pip_executable_cmd_list(obj),
                         <<T("install"), T("--no-cache-dir"),
                           T("--disable-pip-version-check"), package_spec>>,
                         <<FALSE, TRUE, TRUE, TRUE>>)
    IN Call(c.command, c.shell, TRUE, obj.bagel_repo_dir)

\* Lines 430-439.
upgrade_call(obj, pkg_to_upgrade) ==
    LET c == pip_command(get_pip_executable_cmd_list(obj),
                         <<T("install"), T("--upgrade"), pkg_to_upgrade>>,
                         <<FALSE, FALSE, TRUE>>)
    IN Call(c.command, c.shell, TRUE, obj.original_dir)

\* Lines 468-478.
verify_call(obj) ==
    LET verify_cmd_base == get_pip_executable_cmd_list(obj)
    IN IF verify_cmd_base.type = "str"
       THEN Call(S(verify_cmd_base.val \o <<SP, "-c", SP>> \o shlex_quote(verify_py_code)),
                 TRUE, TRUE, obj.original_dir)
       ELSE LET use_shell_for_verify == verify_cmd_base.val[1] = T("conda")
                python_exe_for_verify ==
                    IF use_shell_for_verify THEN verify_cmd_base.val[5]
                    ELSE verify_cmd_base.val[1]
                parts == <<python_exe_for_verify, T("-c"), verify_py_code>>
            IN IF use_shell_for_verify
               THEN Call(S(list2cmdline(SubSeq(verify_cmd_base.val, 1, 4) \o parts)),
                         TRUE, TRUE, obj.original_dir)
               ELSE Call(L(parts), FALSE, TRUE, obj.original_dir)

\* Lines 496-505.
requirements_call(obj) ==
    LET requirements_file == PathJoin(obj.system, obj.bagel_repo_dir, "requirements.txt")
        c == pip_command(get_pip_executable_cmd_list(obj),
                         <<T("install"), T("-r"), requirements_file>>,
                         <<FALSE, FALSE, TRUE>>)
    IN Call(c.command, c.shell, TRUE, obj.bagel_repo_dir)

\* A variant of bulk_hints_for printing the hint of every matching signature.
bulk_hints_for_each(stderr_req) ==
    (IF Truthy(stderr_req) /\ Has(stderr_req, SigImpImporter)
     THEN <<"ImpImporter">> ELSE <<>>)
    \o (IF Truthy(stderr_req) /\ Has(stderr_req, SigFlashAttn) /\ Has(stderr_req, SigWheels)
        THEN <<"flash-attn">> ELSE <<>>)
    \o (IF Truthy(stderr_req) /\ Has(stderr_req, SigSentencepiece)
           /\ Has(stderr_req, SigFileNotFound)
        THEN <<"sentencepiece">> ELSE <<>>)

\* Lines 509-514: the hints printed for the captured error text of the bulk
\* install, in print order.
bulk_hints_for(stderr_req) ==
    IF Truthy(stderr_req) /\ Has(stderr_req, SigImpImporter)
    THEN <<"ImpImporter">>
    ELSE IF Truthy(stderr_req) /\ Has(stderr_req, SigFlashAttn) /\ Has(stderr_req, SigWheels)
    THEN <<"flash-attn">>
    ELSE IF Truthy(stderr_req) /\ Has(stderr_req, SigSentencepiece)
            /\ Has(stderr_req, SigFileNotFound)
    THEN <<"sentencepiece">>
    ELSE <<>>

NoCall == Call([type |-> "other", val |-> <<>>], FALSE, TRUE, <<>>)

NoRet == RcReturn(FALSE, NoneTxt, NoneTxt, "none")

\* Outcomes of a launched command whose output the caller reads for the given
\* texts.
AnyOutcome(outs, errs) ==
    ExitOutcomes({"exit0", "nonzero"}, outs, errs) \cup FaultOutcomes({"notfound", "error"})

\* A command whose output text is not searched by the modelled code.
PlainOutcomes == AnyOutcome({Txt({"out"})}, {Txt({"err"})})

\* Interpreter minor versions of the host (sys.version_info.minor).
HostMinors == {9, 10, 11, 12, 13}

OriginalDirs(system) ==
    IF system = "windows"
    THEN {<<"C:", BS, "work">>, <<"C:", BS, "msys64", BS, "home">>}
    ELSE {<<"/", "home", "/", "user">>}

SysExecutable(system) ==
    IF system = "windows" THEN <<"C:", BS, "Python", BS, "python.exe">>
    ELSE <<"/", "usr", "/", "bin", "/", "python3">>

\* The command lines explored: each backend choice with no skip toggle, with
\* one of --no-clone, --no-deps, --no-download-script, or with all three.
SkipSets == {{}, {"clone"}, {"deps"}, {"download"}, {"clone", "deps", "download"}}

CommandLines ==
    {[backend |-> b, clone_repo |-> "clone" \notin skip,
      install_deps |-> "deps" \notin skip,
      create_download_script |-> "download" \notin skip] :
        b \in {"venv", "conda", "auto"}, skip \in SkipSets}

NoVerdict == [stage |-> "none", failed |-> FALSE]

\* A step of main or run_setup: the facts it saw, the operator's answers, the
\* commands and other effects it carried out with their results, in order,
\* and what it returned.
Step(name, saw, answers, did, ok) ==
    [name |-> name, saw |-> saw, answers |-> answers, did |-> did, ok |-> ok]

NoStep == Step("none", {}, <<>>, <<>>, TRUE)

\* A command or effect carried out, and whether it succeeded.
Did(what, ok) == <<what, ok>>

NoLoc ==
    [idx |-> 0, all_upgraded_successfully |-> TRUE, ok_count |-> 0,
     stderr_req |-> NoneTxt, py_versions_to_try |-> <<>>,
     success_torch_check |-> FALSE, stdout_torch_check |-> NoneTxt]

VARIABLES
    pc,          \* the point the run has reached
    args,        \* the parsed command line (lines 627-634)
    host,        \* the host interpreter: sys.version_info.minor, sys.executable
    obj,         \* the BAGELSetup instance (self): lines 43-50
    step,        \* the latest step of main and run_setup outside the pipeline
                 \* stages: what it saw, was answered and did, and its result
    loc,         \* the locals of the function in progress
    events,      \* the pipeline stages started and finished, in order
    issued,      \* the package installs issued by the pipeline, in order
    last_call,   \* the latest run_command call
    hint_out,    \* the remediation hints printed by the latest step
    warnings,    \* the warnings printed about the host interpreter
    fb_installed, \* whether some install of the fallback list has succeeded
    verdict,     \* the latest stage of stages 1 to 5 that ran a command, and
                 \* whether some command of it has failed
    clean,       \* no command of stages 1 to 5 has failed so far
    artifacts,   \* the helper files written
    deps_result, \* what install_requirements returned: "unset", "true", "false"
    rs_result,   \* how run_setup ended: "running", "true", "false", "exception"
    exit_code,   \* the exit status of the process, -1 while it runs
    ex_pc,       \* "off", "call" (run_command about to run), "done"
    ex_call,     \* the arguments of the run_command call explored
    ex_ret,      \* what that call produced
    ex_outcome   \* what the launched process did in that call

exec_vars == <<ex_pc, ex_call, ex_ret, ex_outcome>>

const_vars == <<args, host>>

pipe_vars == <<loc, events, issued, last_call, hint_out, warnings, fb_installed,
              verdict, clean, deps_result>>

end_vars == <<artifacts, rs_result, exit_code>>

main_vars == <<pc, const_vars, obj, step, pipe_vars, end_vars>>

vars == <<main_vars, exec_vars>>

ExecOff ==
    /\ ex_pc = "off"
    /\ ex_call = NoCall
    /\ ex_ret = NoRet
    /\ ex_outcome = CHOOSE o \in FaultOutcomes({"error"}) : TRUE

\* The process starts: the command line is parsed and the instance fields
\* that do not depend on the backend are known.
Init ==
    /\ pc = "main"
    /\ args \in CommandLines
    /\ \E system \in {"windows", "linux"} :
         \E original_dir \in OriginalDirs(system) :
           \E minor \in HostMinors :
             /\ host = [minor |-> minor, sys_executable |-> SysExecutable(system)]
             /\ obj = [env_name |-> T("bagel_env"), use_conda |-> FALSE,
                       system |-> system,
                       python_executable |-> SysExecutable(system),
                       original_dir |-> original_dir,
                       bagel_repo_dir |-> PathJoin(system, original_dir, "BAGEL")]
    /\ step = NoStep
    /\ loc = NoLoc
    /\ events = <<>>
    /\ issued = <<>>
    /\ last_call = NoCall
    /\ hint_out = <<>>
    /\ warnings = {}
    /\ fb_installed = FALSE
    /\ verdict = NoVerdict
    /\ clean = TRUE
    /\ artifacts = {}
    /\ deps_result = "unset"
    /\ rs_result = "running"
    /\ exit_code = -1
    /\ ExecOff

\* run_setup returns b to main.
Return(b) ==
    /\ pc' = "main_exit"
    /\ rs_result' = IF b THEN "true" ELSE "false"

\* An exception leaves run_setup.
Raise ==
    /\ pc' = "main_exit"
    /\ rs_result' = "exception"

\* A variant of run_setup_goes_on in which run_setup ignores what the
\* environment step returned.
run_setup_goes_on_always(env_ok) == TRUE

\* run_setup lines 613-616: `if not self.create_..._environment(): return
\* False`.
run_setup_goes_on(env_ok) == env_ok

\* The environment step returns env_ok to run_setup.
EnvReturn(env_ok) ==
    IF run_setup_goes_on(env_ok)
    THEN pc' = "deps" /\ UNCHANGED rs_result
    ELSE Return(FALSE)

\* ------------------------------------------------------------------------
\* check_conda_installation (lines 213-222).
check_conda_installation(outcome) ==
    LET r == run_command(L(<<T("conda"), T("--version")>>), TRUE, FALSE, FALSE, outcome)
    IN r.succeeded /\ Has(r.stdout, "conda")

CondaOutcomes == AnyOutcome({EmptyTxt, Txt({"conda"})}, {EmptyTxt})

\* A variant of main_use_conda in which only --use-conda is a forced choice.
main_use_conda_detects(backend, detected) ==
    IF backend = "conda" THEN TRUE ELSE detected

\* main, lines 634-639: use_conda from the parsed command line and, when
\* neither backend is forced, from the detection of conda.
main_use_conda(backend, detected) ==
    IF backend = "venv" THEN FALSE
    ELSE IF backend = "conda" THEN TRUE
    ELSE detected

\* main, lines 634-640: the backend is forced or detected.
MainSelectBackend ==
    /\ pc = "main"
    /\ \E outcome \in CondaOutcomes :
          LET detected == check_conda_installation(outcome)
              forced == args.backend \in {"venv", "conda"}
          IN /\ obj' = [obj EXCEPT !.use_conda = main_use_conda(args.backend, detected)]
             /\ step' = Step("select", {}, <<>>,
                             IF forced THEN <<>>
                             ELSE <<Did("conda --version", detected)>>, TRUE)
    /\ pc' = "probe"
    /\ UNCHANGED <<const_vars, pipe_vars, end_vars, exec_vars>>

\* A variant of continue_after_probe in which the probe is advisory only.
continue_after_probe_always(online, needs_network, answer) == TRUE

\* run_setup, lines 596-597: whether the run goes on after the connectivity
\* probe, from its result, whether a step that needs the network is
\* requested, and the operator's answer to the offline prompt.
continue_after_probe(online, needs_network, answer) ==
    IF ~online /\ needs_network THEN answer = "y" ELSE TRUE

\* run_setup, lines 596-597: the connectivity probe and the offline prompt.
RunSetupProbe ==
    /\ pc = "probe"
    /\ \E online \in BOOLEAN, answer \in {"y", "n"} :
          LET asked == ~online /\ (args.clone_repo \/ args.install_deps
                                     \/ args.create_download_script)
              go_on == continue_after_probe(
                           online,
                           args.clone_repo \/ args.install_deps
                               \/ args.create_download_script,
                           answer)
          IN /\ step' = Step("probe", {}, IF asked THEN <<answer>> ELSE <<>>,
                             <<Did("urlopen", online)>>, go_on)
             /\ IF ~go_on THEN Return(FALSE)
                ELSE pc' = "sysreq" /\ UNCHANGED rs_result
    /\ UNCHANGED <<const_vars, obj, pipe_vars, artifacts, exit_code, exec_vars>>

\* check_system_requirements (lines 128-153) and run_setup line 598.
CheckSystemRequirements ==
    /\ pc = "sysreq"
    /\ \E git \in PlainOutcomes, smi \in PlainOutcomes :
          LET success == run_command(L(<<T("git"), T("--version")>>),
                                     TRUE, FALSE, FALSE, git).succeeded
              gpu == run_command(L(<<T("nvidia-smi")>>), TRUE, FALSE, FALSE, smi).succeeded
              all_ok == host.minor >= 10 /\ success
          IN /\ step' = Step("sysreq", {}, <<>>,
                             <<Did("git --version", success), Did("nvidia-smi", gpu)>>,
                             all_ok)
             /\ IF ~all_ok THEN Return(FALSE)
                ELSE /\ pc' = IF obj.use_conda THEN "conda" ELSE "pip"
                     /\ UNCHANGED rs_result
    /\ UNCHANGED <<const_vars, obj, pipe_vars, artifacts, exit_code, exec_vars>>

\* install_conda (lines 155-200): downloaded and installed say whether the
\* installer download and the installer run succeeded, dir_exists whether
\* the install directory exists afterwards, detected is the result of the
\* check_conda_installation that follows.
install_conda(system, downloaded, installed, dir_exists, detected) ==
    IF ~downloaded THEN FALSE
    ELSE IF system = "windows"
    THEN IF installed \/ dir_exists THEN detected ELSE FALSE
    ELSE IF ~installed THEN FALSE ELSE detected

\* ensure_conda_installed (lines 224-240) and run_setup lines 599-600.
\* install_conda_manual_windows (choice 2) prompts and may look for conda
\* again; ensure_conda_installed returns False whatever it finds.
install_conda_did(system, downloaded, installed, dir_exists, exe_exists, inits, detected) ==
    <<Did("download", downloaded)>>
    \o (IF ~downloaded THEN <<>>
        ELSE <<Did("installer", installed)>>
             \o (IF system = "windows"
                 THEN IF installed \/ dir_exists
                      THEN (IF exe_exists
                            THEN <<Did("conda init", inits), Did("conda init", inits)>>
                            ELSE <<>>)
                           \o <<Did("conda --version", detected)>>
                      ELSE <<>>
                 ELSE IF ~installed THEN <<>>
                      ELSE <<Did("conda init", inits), Did("conda init", inits),
                             Did("conda --version", detected)>>))

\* install_conda_manual_windows (lines 242-247): the instructions, the
\* prompt, and the detection the answer 'y' leads to.
install_conda_manual_windows_did(answer, detected) ==
    <<Did("manual instructions", TRUE)>>
    \o (IF answer = "y" THEN <<Did("conda --version", detected)>> ELSE <<>>)

\* A variant of ensure_conda_installed in which a failed automatic
\* installation is only reported.
ensure_conda_installed_forgives(system, present, choice, done) ==
    IF present THEN TRUE
    ELSE IF system = "windows"
    THEN CASE choice = "1" -> TRUE
           [] choice = "2" -> FALSE
           [] choice = "3" -> TRUE
           [] OTHER -> FALSE
    ELSE TRUE

\* ensure_conda_installed (lines 224-240): its result, from the detection of
\* conda, the operator's choice and the result of install_conda.
\* install_conda_manual_windows (choice 2) prompts and may look for conda
\* again; ensure_conda_installed returns False whatever it finds.
ensure_conda_installed(system, present, choice, done) ==
    IF present THEN TRUE
    ELSE IF system = "windows"
    THEN CASE choice = "1" -> done
           [] choice = "2" -> FALSE
           [] choice = "3" -> TRUE
           [] OTHER -> FALSE
    ELSE IF choice = "y" THEN done ELSE TRUE

\* A variant of ensure_use_conda in which skipping leaves the backend as it
\* was.
ensure_use_conda_keeps(system, present, choice, use_conda) == use_conda

\* ensure_conda_installed, lines 234 and 239: self.use_conda afterwards.
ensure_use_conda(system, present, choice, use_conda) ==
    LET skip == IF system = "windows" THEN choice = "3" ELSE choice # "y"
    IN IF ~present /\ skip THEN FALSE ELSE use_conda

\* ensure_conda_installed (lines 224-240) and run_setup lines 599-600.
EnsureCondaInstalled ==
    /\ pc = "conda"
    /\ \E present \in {check_conda_installation(o) : o \in CondaOutcomes},
          choice \in IF obj.system = "windows" THEN {"1", "2", "3", "other"} ELSE {"y", "n"},
          d \in BOOLEAN, i \in BOOLEAN, x \in BOOLEAN, e \in BOOLEAN, inits \in BOOLEAN,
          detected \in {check_conda_installation(o) : o \in CondaOutcomes},
          manual \in {"y", "n"} :
          LET done == install_conda(obj.system, d, i, x, detected)
              automatic == IF obj.system = "windows" THEN choice = "1" ELSE choice = "y"
              result == ensure_conda_installed(obj.system, present, choice, done)
              use_conda == ensure_use_conda(obj.system, present, choice, obj.use_conda)
              answers == IF present THEN <<>>
                         ELSE IF obj.system = "windows" /\ choice = "2"
                         THEN <<choice, manual>> ELSE <<choice>>
              did == <<Did("conda --version", present)>>
                     \o (IF present THEN <<>>
                         ELSE IF automatic
                         THEN install_conda_did(obj.system, d, i, x, e, inits, detected)
                         ELSE IF obj.system = "windows" /\ choice = "2"
                         THEN install_conda_manual_windows_did(manual, detected)
                         ELSE <<>>)
          IN /\ obj' = [obj EXCEPT !.use_conda = use_conda]
             /\ step' = Step("conda", {}, answers, did, result)
             /\ IF ~result /\ use_conda THEN Return(FALSE)
                ELSE /\ pc' = IF use_conda THEN "fetch" ELSE "pip"
                     /\ UNCHANGED rs_result
    /\ UNCHANGED <<const_vars, pipe_vars, artifacts, exit_code, exec_vars>>

\* check_pip_installation (lines 249-267) and run_setup lines 601-603.  The
\* step records how the first pip check ended.
CheckPipInstallation ==
    /\ pc = "pip"
    /\ \E first \in PlainOutcomes, ensure \in PlainOutcomes, recheck \in PlainOutcomes :
          LET pip_check == L(<<host.sys_executable, T("-m"), T("pip"), T("--version")>>)
              ensurepip == L(<<host.sys_executable, T("-m"), T("ensurepip"), T("--default-pip")>>)
              checked == run_command(pip_check, TRUE, FALSE, FALSE, first)
              found == checked.succeeded
              ensured == run_command(ensurepip, TRUE, TRUE, FALSE, ensure).succeeded
              again == run_command(pip_check, TRUE, FALSE, FALSE, recheck).succeeded
              ok == found \/ (ensured /\ again)
          IN /\ step' = Step("pip", {checked.launch}, <<>>,
                             <<Did("pip --version", found)>>
                             \o (IF found THEN <<>> ELSE <<Did("ensurepip", ensured)>>)
                             \o (IF ~found /\ ensured THEN <<Did("pip --version", again)>>
                                 ELSE <<>>),
                             ok)
             /\ IF ~ok THEN Return(FALSE)
                ELSE pc' = "fetch" /\ UNCHANGED rs_result
    /\ UNCHANGED <<const_vars, obj, pipe_vars, artifacts, exit_code, exec_vars>>

\* ------------------------------------------------------------------------
\* The Repository Fetcher.

\* Line 275: f"{target_dir_name}_clone_{int(time.time())}".
alt_dir_name == "BAGEL_clone_1700000000"

\* _perform_clone (lines 287-291).
perform_clone(o, outcome) ==
    run_command(L(<<T("git"), T("clone"), T("https://github.com/ByteDance-Seed/Bagel.git"),
                    o.bagel_repo_dir>>), TRUE, TRUE, FALSE, outcome).succeeded

\* A variant of clone_repository_ok in which declining the alternate clone
\* lets the run go on with the directory that is there.
clone_repository_ok_keeps_dir(exists, is_git, answer, cloned, pulled) ==
    IF ~exists THEN cloned
    ELSE IF ~is_git THEN (IF answer = "y" THEN cloned ELSE TRUE)
    ELSE IF answer = "y" THEN pulled ELSE TRUE

\* A variant of clone_repository_ok in which a failed pull is only reported.
clone_repository_ok_ignores_pull(exists, is_git, answer, cloned, pulled) ==
    IF ~exists THEN cloned
    ELSE IF ~is_git THEN (IF answer = "y" THEN cloned ELSE FALSE)
    ELSE TRUE

\* clone_repository (lines 269-285): its result, from whether the target
\* directory exists and is a checkout, the operator's answer, and the
\* results of the clone and of the pull.
clone_repository_ok(exists, is_git, answer, cloned, pulled) ==
    IF ~exists THEN cloned
    ELSE IF ~is_git THEN (IF answer = "y" THEN cloned ELSE FALSE)
    ELSE IF answer = "y" THEN pulled ELSE TRUE

\* clone_repository (lines 269-285): the commands it runs.
clone_repository_did(exists, is_git, answer, cloned, pulled) ==
    IF ~exists \/ (~is_git /\ answer = "y") THEN <<Did("git clone", cloned)>>
    ELSE IF is_git /\ answer = "y" THEN <<Did("git pull", pulled)>>
    ELSE <<>>

\* clone_repository (lines 269-285) and run_setup lines 605-606.
CloneRepository ==
    /\ pc = "fetch"
    /\ args.clone_repo
    /\ \E exists \in BOOLEAN, is_git \in BOOLEAN, answer \in {"y", "n"},
          outcome \in PlainOutcomes :
          LET target == PathJoin(obj.system, obj.original_dir, "BAGEL")
              alt == PathJoin(obj.system, obj.original_dir, alt_dir_name)
              dir == IF exists /\ ~is_git /\ answer = "y" THEN alt ELSE target
              o == [obj EXCEPT !.bagel_repo_dir = dir]
              pulled == run_command(L(<<T("git"), T("pull")>>), TRUE, TRUE, FALSE,
                                    outcome).succeeded
              cloned == perform_clone(o, outcome)
              ok == clone_repository_ok(exists, is_git, answer, cloned, pulled)
              did == clone_repository_did(exists, is_git, answer, cloned, pulled)
          IN /\ obj' = o
             /\ step' = Step("fetch",
                             (IF exists THEN {"exists"} ELSE {})
                             \cup (IF exists /\ is_git THEN {"checkout"} ELSE {}),
                             IF exists THEN <<answer>> ELSE <<>>, did, ok)
             /\ IF ~ok THEN Return(FALSE)
                ELSE pc' = "env" /\ UNCHANGED rs_result
    /\ UNCHANGED <<const_vars, pipe_vars, artifacts, exit_code, exec_vars>>

\* run_setup lines 607-612: --no-clone looks for an existing checkout.
UseExistingDir ==
    /\ pc = "fetch"
    /\ ~args.clone_repo
    /\ \E cwd_has_reqs \in BOOLEAN, sub_has_reqs \in BOOLEAN :
          /\ step' = Step("fetch", {"no-clone"}, <<>>, <<>>, cwd_has_reqs \/ sub_has_reqs)
          /\ IF cwd_has_reqs
             THEN /\ obj' = [obj EXCEPT !.bagel_repo_dir = obj.original_dir]
                  /\ pc' = "env" /\ UNCHANGED rs_result
             ELSE IF sub_has_reqs
             THEN /\ obj' = [obj EXCEPT !.bagel_repo_dir =
                                           PathJoin(obj.system, obj.original_dir, "BAGEL")]
                  /\ pc' = "env" /\ UNCHANGED rs_result
             ELSE Return(FALSE) /\ UNCHANGED obj
    /\ UNCHANGED <<const_vars, pipe_vars, artifacts, exit_code, exec_vars>>

\* ------------------------------------------------------------------------
\* The Environment Provisioner.

\* The answers to the prompt about an existing environment, lowered (lines
\* 302 and 341): use, skip, and two of the answers that are neither, "r" and
\* the empty line.
ExistingEnvChoices == {"u", "s", "r", ""}

\* A variant of create_after_removal that goes on to create the environment
\* whatever the removal did.
create_after_removal_always(success_remove) == TRUE

\* Lines 307 and 346-347: the environment is created only when the removal
\* of the existing one succeeded.
create_after_removal(success_remove) == success_remove

\* _update_python_executable_for_venv (lines 355-358).
update_python_executable_for_venv(o, env_path) ==
    [o EXCEPT !.python_executable =
        IF o.system = "windows"
        THEN PathJoin(o.system, PathJoin(o.system, env_path, "Scripts"), "python.exe")
        ELSE PathJoin(o.system, PathJoin(o.system, env_path, "bin"), "python")]

\* create_venv_environment (lines 336-353) and run_setup line 617.
CreateVenvEnvironment ==
    /\ pc = "env"
    /\ ~obj.use_conda
    /\ \E exists \in BOOLEAN, choice \in ExistingEnvChoices, removed \in BOOLEAN,
          outcome \in PlainOutcomes :
          LET env_path == obj.original_dir \o <<Sep(obj.system)>> \o obj.env_name
              created == run_command(L(<<host.sys_executable, T("-m"), T("venv"), env_path>>),
                                     TRUE, TRUE, FALSE, outcome).succeeded
              reuse == exists /\ choice = "u"
              ok == IF exists /\ choice = "u" THEN TRUE
                    ELSE IF exists /\ choice = "s" THEN FALSE
                    ELSE IF exists /\ ~create_after_removal(removed) THEN FALSE
                    ELSE created
              did == IF exists /\ choice \in {"u", "s"} THEN <<>>
                     ELSE (IF exists THEN <<Did("rmtree", removed)>> ELSE <<>>)
                          \o (IF exists /\ ~create_after_removal(removed) THEN <<>>
                              ELSE <<Did("python -m venv", created)>>)
          IN /\ step' = Step("env", IF exists THEN {"exists"} ELSE {},
                             IF exists THEN <<choice>> ELSE <<>>, did, ok)
             /\ obj' = IF ok THEN update_python_executable_for_venv(obj, env_path)
                       ELSE obj
             /\ EnvReturn(ok)
    /\ UNCHANGED <<const_vars, pipe_vars, artifacts, exit_code, exec_vars>>

\* str(minor)
MinorText(minor) ==
    CASE minor = 9 -> "9" [] minor = 10 -> "10" [] minor = 11 -> "11"
      [] minor = 12 -> "12" [] OTHER -> "13"

\* Line 314: the create command of a candidate version, as it is recorded.
conda_create_did(minor) ==
    CASE minor = 9 -> "conda create python=3.9"
      [] minor = 10 -> "conda create python=3.10"
      [] minor = 11 -> "conda create python=3.11"
      [] minor = 12 -> "conda create python=3.12"
      [] OTHER -> "conda create python=3.13"

RECURSIVE SortDescending(_)
SortDescending(set) ==
    IF set = {} THEN <<>>
    ELSE LET m == CHOOSE x \in set : \A y \in set : y <= x
         IN <<m>> \o SortDescending(set \ {m})

\* Lines 308-310: the interpreter versions tried, as minor versions.  The sort
\* key (minor < 13, -minor) orders minors below 13 from the highest down.
py_versions_to_try(current_py_ver_minor) ==
    LET chosen == (IF current_py_ver_minor <= 11 THEN {current_py_ver_minor} ELSE {})
                  \cup {11, 10, 12}
    IN SortDescending({v \in chosen : v >= 13}) \o SortDescending({v \in chosen : v < 13})

\* A variant of update_python_executable_for_conda_env that sets the
\* interpreter path whether or not the registry query resolved it.
update_python_executable_for_conda_env_always(o, resolved) ==
    [o EXCEPT !.python_executable =
        IF o.system = "windows"
        THEN <<"C:", BS, "conda", BS, "envs", BS>> \o o.env_name \o <<BS, "python.exe">>
        ELSE <<"/", "opt", "/", "conda", "/", "envs", "/">> \o o.env_name
             \o <<"/", "bin", "/", "python">>]

\* _update_python_executable_for_conda_env (lines 323-334): the registry query
\* resolves the interpreter of the named environment, or does not.
update_python_executable_for_conda_env(o, resolved) ==
    IF resolved
    THEN [o EXCEPT !.python_executable =
            IF o.system = "windows"
            THEN <<"C:", BS, "conda", BS, "envs", BS>> \o o.env_name \o <<BS, "python.exe">>
            ELSE <<"/", "opt", "/", "conda", "/", "envs", "/">> \o o.env_name
                 \o <<"/", "bin", "/", "python">>]
    ELSE o

\* How the registry query of line 324 ends: the interpreter is found, is not
\* found, the query command itself fails, or the registry output is JSON of
\* an unexpected shape (an exception other than JSONDecodeError leaves the
\* function).
RegistryResults == {"resolved", "unresolved", "failed", "malformed"}

\* create_conda_environment, lines 293-310: list, the prompt for an existing
\* environment, and its removal.
CondaEnvironmentStart ==
    /\ pc = "env"
    /\ obj.use_conda
    /\ \E success_list \in BOOLEAN, listed \in BOOLEAN, choice \in ExistingEnvChoices,
          remove \in PlainOutcomes, registry \in RegistryResults :
          LET env_exists == success_list /\ listed
              removed == run_command(L(<<T("conda"), T("env"), T("remove"), T("-n"),
                                         obj.env_name, T("-y")>>),
                                     TRUE, TRUE, FALSE, remove).succeeded
              saw == IF env_exists THEN {"exists"} ELSE {}
              answers == IF env_exists THEN <<choice>> ELSE <<>>
              list == <<Did("conda env list", success_list)>>
          IN IF env_exists /\ choice = "u"
             THEN /\ step' = Step("env", saw \cup {registry}, answers,
                                  list \o <<Did("conda env list --json",
                                                registry # "failed")>>,
                                  registry # "malformed")
                  /\ IF registry = "malformed"
                     THEN Raise /\ UNCHANGED <<obj, loc>>
                     ELSE /\ obj' = update_python_executable_for_conda_env(
                                        obj, registry = "resolved")
                          /\ EnvReturn(TRUE)
                          /\ UNCHANGED loc
             ELSE IF env_exists /\ (choice = "s" \/ ~create_after_removal(removed))
             THEN /\ step' = Step("env", saw, answers,
                                  IF choice = "s" THEN list
                                  ELSE list \o <<Did("conda env remove", removed)>>,
                                  FALSE)
                  /\ EnvReturn(FALSE) /\ UNCHANGED <<obj, loc>>
             ELSE /\ step' = Step("env", saw, answers,
                                  IF env_exists
                                  THEN list \o <<Did("conda env remove", removed)>>
                                  ELSE list,
                                  TRUE)
                  /\ loc' = [loc EXCEPT !.idx = 1,
                               !.py_versions_to_try = py_versions_to_try(host.minor)]
                  /\ pc' = "conda_create"
                  /\ UNCHANGED <<obj, rs_result>>
    /\ UNCHANGED <<const_vars, events, issued, last_call, hint_out, warnings, fb_installed,
                   verdict, clean,
                   deps_result, artifacts, exit_code, exec_vars>>

\* A variant of CondaCreate in which the run goes on to the installation when
\* every candidate has failed.
CondaCreate_goes_on ==
    /\ pc = "conda_create"
    /\ \E outcome \in PlainOutcomes, registry \in RegistryResults :
          LET py_ver == loc.py_versions_to_try[loc.idx]
              success_create ==
                 run_command(L(<<T("conda"), T("create"), T("-n"), obj.env_name,
                                 <<"python=3.", MinorText(py_ver)>>, T("-c"), T("pytorch"), T("-c"),
                                 T("nvidia"), T("-c"), T("conda-forge"), T("-y")>>),
                             TRUE, TRUE, FALSE, outcome).succeeded
              create == Did(conda_create_did(py_ver), success_create)
          IN IF success_create
             THEN /\ step' = [step EXCEPT
                                !.saw = @ \cup {registry},
                                !.did = @ \o <<create, Did("conda env list --json",
                                                           registry # "failed")>>,
                                !.ok = registry # "malformed"]
                  /\ IF registry = "malformed"
                     THEN Raise /\ UNCHANGED <<obj, loc>>
                     ELSE /\ obj' = update_python_executable_for_conda_env(
                                        obj, registry = "resolved")
                          /\ loc' = NoLoc
                          /\ pc' = "deps"
                          /\ UNCHANGED rs_result
             ELSE /\ step' = [step EXCEPT !.did = @ \o <<create>>,
                                          !.ok = loc.idx < Len(loc.py_versions_to_try)]
                  /\ IF loc.idx < Len(loc.py_versions_to_try)
                     THEN /\ loc' = [loc EXCEPT !.idx = loc.idx + 1]
                          /\ UNCHANGED <<pc, obj, rs_result>>
                     ELSE /\ loc' = NoLoc
                          /\ pc' = "deps"
                          /\ UNCHANGED <<obj, rs_result>>
    /\ UNCHANGED <<const_vars, events, issued, last_call, hint_out, warnings, fb_installed,
                   verdict, clean,
                   deps_result, artifacts, exit_code, exec_vars>>

\* A variant of CondaCreate in which the creation fails when the interpreter
\* of the new environment is not resolved.
CondaCreate_needs_interpreter ==
    /\ pc = "conda_create"
    /\ \E outcome \in PlainOutcomes, registry \in RegistryResults :
          LET py_ver == loc.py_versions_to_try[loc.idx]
              success_create ==
                 run_command(L(<<T("conda"), T("create"), T("-n"), obj.env_name,
                                 <<"python=3.", MinorText(py_ver)>>, T("-c"), T("pytorch"), T("-c"),
                                 T("nvidia"), T("-c"), T("conda-forge"), T("-y")>>),
                             TRUE, TRUE, FALSE, outcome).succeeded
              create == Did(conda_create_did(py_ver), success_create)
          IN IF success_create
             THEN /\ step' = [step EXCEPT
                                !.saw = @ \cup {registry},
                                !.did = @ \o <<create, Did("conda env list --json",
                                                           registry # "failed")>>,
                                !.ok = registry # "malformed"]
                  /\ IF registry = "malformed"
                     THEN Raise /\ UNCHANGED <<obj, loc>>
                     ELSE IF registry # "resolved"
                     THEN Return(FALSE) /\ loc' = NoLoc /\ UNCHANGED obj
                     ELSE /\ obj' = update_python_executable_for_conda_env(
                                        obj, registry = "resolved")
                          /\ loc' = NoLoc
                          /\ pc' = "deps"
                          /\ UNCHANGED rs_result
             ELSE /\ step' = [step EXCEPT !.did = @ \o <<create>>,
                                          !.ok = loc.idx < Len(loc.py_versions_to_try)]
                  /\ IF loc.idx < Len(loc.py_versions_to_try)
                     THEN /\ loc' = [loc EXCEPT !.idx = loc.idx + 1]
                          /\ UNCHANGED <<pc, obj, rs_result>>
                     ELSE /\ loc' = NoLoc
                          /\ Return(FALSE)
                          /\ UNCHANGED obj
    /\ UNCHANGED <<const_vars, events, issued, last_call, hint_out, warnings, fb_installed,
                   verdict, clean,
                   deps_result, artifacts, exit_code, exec_vars>>

\* create_conda_environment, lines 312-321: one pass of the candidate loop.
CondaCreate ==
    /\ pc = "conda_create"
    /\ \E outcome \in PlainOutcomes, registry \in RegistryResults :
          LET py_ver == loc.py_versions_to_try[loc.idx]
              success_create ==
                 run_command(L(<<T("conda"), T("create"), T("-n"), obj.env_name,
                                 <<"python=3.", MinorText(py_ver)>>, T("-c"), T("pytorch"), T("-c"),
                                 T("nvidia"), T("-c"), T("conda-forge"), T("-y")>>),
                             TRUE, TRUE, FALSE, outcome).succeeded
              create == Did(conda_create_did(py_ver), success_create)
          IN IF success_create
             THEN /\ step' = [step EXCEPT
                                !.saw = @ \cup {registry},
                                !.did = @ \o <<create, Did("conda env list --json",
                                                           registry # "failed")>>,
                                !.ok = registry # "malformed"]
                  /\ IF registry = "malformed"
                     THEN Raise /\ UNCHANGED <<obj, loc>>
                     ELSE /\ obj' = update_python_executable_for_conda_env(
                                        obj, registry = "resolved")
                          /\ loc' = NoLoc
                          /\ EnvReturn(TRUE)
             ELSE /\ step' = [step EXCEPT !.did = @ \o <<create>>,
                                          !.ok = loc.idx < Len(loc.py_versions_to_try)]
                  /\ IF loc.idx < Len(loc.py_versions_to_try)
                     THEN /\ loc' = [loc EXCEPT !.idx = loc.idx + 1]
                          /\ UNCHANGED <<pc, obj, rs_result>>
                     ELSE /\ loc' = NoLoc
                          /\ EnvReturn(FALSE)
                          /\ UNCHANGED obj
    /\ UNCHANGED <<const_vars, events, issued, last_call, hint_out, warnings, fb_installed,
                   verdict, clean,
                   deps_result, artifacts, exit_code, exec_vars>>

\* ------------------------------------------------------------------------
\* The Installation Pipeline: install_requirements (lines 419-518).

StageStart(stage) == <<"start", stage>>
StageEnd(stage) == <<"end", stage>>

Issue(stage, pkg) == [stage |-> stage, pkg |-> pkg]

\* The verdict once a command of the stage has returned ok: a stage has
\* failed when some command of it has.
Judge(stage, ok) ==
    [stage |-> stage,
     failed |-> ~ok \/ (verdict.stage = stage /\ verdict.failed)]

\* install_requirements returns b to run_setup (lines 618-620): a false
\* result is reported as a warning and run_setup goes on to the helpers.
PipelineReturn(b) ==
    /\ deps_result' = IF b THEN "true" ELSE "false"
    /\ pc' = "helpers"

\* A variant of InstallRequirementsStart that resets the interpreter path to
\* the host interpreter.
InstallRequirementsStart_rewrites ==
    /\ pc = "deps"
    /\ \E requirements_is_file \in BOOLEAN :
          IF ~args.install_deps
          THEN pc' = "helpers" /\ UNCHANGED <<deps_result, loc>>
          ELSE IF ~requirements_is_file
          THEN PipelineReturn(FALSE) /\ UNCHANGED loc
          ELSE /\ pc' = "upgrade"
               /\ loc' = [NoLoc EXCEPT !.idx = 1]
               /\ UNCHANGED deps_result
    /\ step' = NoStep
    /\ obj' = [obj EXCEPT !.python_executable = host.sys_executable]
    /\ UNCHANGED <<const_vars, events, issued, last_call, hint_out, warnings, fb_installed,
                   verdict, clean,
                   end_vars, exec_vars>>

\* run_setup lines 618-620 and install_requirements lines 420-426.
InstallRequirementsStart ==
    /\ pc = "deps"
    /\ \E requirements_is_file \in BOOLEAN :
          IF ~args.install_deps
          THEN pc' = "helpers" /\ UNCHANGED <<deps_result, loc>>
          ELSE IF ~requirements_is_file
          THEN PipelineReturn(FALSE) /\ UNCHANGED loc
          ELSE /\ pc' = "upgrade"
               /\ loc' = [NoLoc EXCEPT !.idx = 1]
               /\ UNCHANGED deps_result
    /\ step' = NoStep
    /\ UNCHANGED <<const_vars, obj, events, issued, last_call, hint_out, warnings, fb_installed,
                   verdict, clean,
                   end_vars, exec_vars>>

\* run_command applied to a call.
Run(call, outcome) ==
    run_command(call.command, call.capture_output, call.check, call.shell, outcome)

\* What the caller can see of a call's success over the given outcomes.
Successes(call, outcomes) == {Run(call, o).succeeded : o \in outcomes}

\* A variant of ToolingUpgrade in which a failed upgrade ends the pipeline.
ToolingUpgrade_fatal ==
    /\ pc = "upgrade"
    /\ last_call' = upgrade_call(obj, upgrade_pkgs[loc.idx])
    /\ \E ok \in Successes(last_call', PlainOutcomes) :
          LET last == loc.idx = Len(upgrade_pkgs)
          IN /\ events' = events
                          \o (IF loc.idx = 1 THEN <<StageStart("ToolingUpgrade")>> ELSE <<>>)
                          \o (IF last THEN <<StageEnd("ToolingUpgrade")>> ELSE <<>>)
             /\ loc' = IF last THEN [NoLoc EXCEPT !.idx = 1]
                       ELSE [loc EXCEPT !.idx = loc.idx + 1,
                               !.all_upgraded_successfully =
                                   loc.all_upgraded_successfully /\ ok]
             /\ IF ~ok THEN PipelineReturn(FALSE)
                ELSE /\ pc' = IF last THEN "framework" ELSE "upgrade"
                     /\ UNCHANGED deps_result
             /\ verdict' = Judge("ToolingUpgrade", ok)
             /\ clean' = (clean /\ ok)
    /\ issued' = Append(issued, Issue("ToolingUpgrade", upgrade_pkgs[loc.idx]))
    /\ hint_out' = <<>>
    /\ UNCHANGED <<const_vars, obj, step, warnings, fb_installed, end_vars, exec_vars>>

\* Lines 427-443: one pass of the loop over pip, setuptools and wheel.
ToolingUpgrade ==
    /\ pc = "upgrade"
    /\ last_call' = upgrade_call(obj, upgrade_pkgs[loc.idx])
    /\ \E ok \in Successes(last_call', PlainOutcomes) :
          LET last == loc.idx = Len(upgrade_pkgs)
          IN /\ events' = events
                          \o (IF loc.idx = 1 THEN <<StageStart("ToolingUpgrade")>> ELSE <<>>)
                          \o (IF last THEN <<StageEnd("ToolingUpgrade")>> ELSE <<>>)
             /\ loc' = IF last THEN [NoLoc EXCEPT !.idx = 1]
                       ELSE [loc EXCEPT !.idx = loc.idx + 1,
                               !.all_upgraded_successfully =
                                   loc.all_upgraded_successfully /\ ok]
             /\ pc' = IF last THEN "framework" ELSE "upgrade"
             /\ verdict' = Judge("ToolingUpgrade", ok)
             /\ clean' = (clean /\ ok)
    /\ issued' = Append(issued, Issue("ToolingUpgrade", upgrade_pkgs[loc.idx]))
    /\ hint_out' = <<>>
    /\ UNCHANGED <<const_vars, obj, step, warnings, fb_installed, deps_result, end_vars, exec_vars>>

\* A variant of FrameworkInstall in which a failed install is only a warning.
FrameworkInstall_warns ==
    /\ pc = "framework"
    /\ last_call' = install_package_call(obj, pt_pip_specs(host.minor)[loc.idx])
    /\ \E ok \in Successes(last_call', PlainOutcomes) :
          LET last == loc.idx = Len(pt_pip_specs(host.minor))
          IN /\ events' = events
                          \o (IF loc.idx = 1 THEN <<StageStart("FrameworkInstall")>> ELSE <<>>)
                          \o (IF last THEN <<StageEnd("FrameworkInstall")>> ELSE <<>>)
             /\ IF last THEN pc' = "verify" /\ loc' = NoLoc /\ UNCHANGED deps_result
                ELSE /\ loc' = [loc EXCEPT !.idx = loc.idx + 1]
                     /\ UNCHANGED <<pc, deps_result>>
             /\ verdict' = Judge("FrameworkInstall", ok)
             /\ clean' = (clean /\ ok)
    /\ issued' = Append(issued, Issue("FrameworkInstall", pt_pip_specs(host.minor)[loc.idx]))
    /\ hint_out' = <<>>
    /\ warnings' = pt_pip_warnings(host.minor)
    /\ UNCHANGED <<const_vars, obj, step, fb_installed, end_vars, exec_vars>>

\* Lines 451-465: one pass of the loop over the framework family.
FrameworkInstall ==
    /\ pc = "framework"
    /\ last_call' = install_package_call(obj, pt_pip_specs(host.minor)[loc.idx])
    /\ \E ok \in Successes(last_call', PlainOutcomes) :
          LET last == ~ok \/ loc.idx = Len(pt_pip_specs(host.minor))
          IN /\ events' = events
                          \o (IF loc.idx = 1 THEN <<StageStart("FrameworkInstall")>> ELSE <<>>)
                          \o (IF last THEN <<StageEnd("FrameworkInstall")>> ELSE <<>>)
             /\ IF ~ok THEN PipelineReturn(FALSE) /\ loc' = NoLoc
                ELSE IF last THEN pc' = "verify" /\ loc' = NoLoc /\ UNCHANGED deps_result
                ELSE /\ loc' = [loc EXCEPT !.idx = loc.idx + 1]
                     /\ UNCHANGED <<pc, deps_result>>
             /\ verdict' = Judge("FrameworkInstall", ok)
             /\ clean' = (clean /\ ok)
    /\ issued' = Append(issued, Issue("FrameworkInstall", pt_pip_specs(host.minor)[loc.idx]))
    /\ hint_out' = <<>>
    /\ warnings' = pt_pip_warnings(host.minor)
    /\ UNCHANGED <<const_vars, obj, step, fb_installed, end_vars, exec_vars>>

VerifyOutcomes == AnyOutcome({EmptyTxt, Txt({"PyTorch"})}, {Txt({"err"})})

\* A variant of Verification in which a failed check escalates to the
\* fallback list.
Verification_falls_back ==
    /\ pc = "verify"
    /\ last_call' = verify_call(obj)
    /\ \E verified \in {LET r == Run(last_call', o) IN r.succeeded /\ Truthy(r.stdout) :
                          o \in VerifyOutcomes} :
          /\ IF verified
             THEN pc' = "numpy" /\ UNCHANGED loc
             ELSE pc' = "fallback" /\ loc' = [NoLoc EXCEPT !.idx = 1]
          /\ verdict' = Judge("Verification", verified)
          /\ clean' = (clean /\ verified)
    /\ events' = events \o <<StageStart("Verification"), StageEnd("Verification")>>
    /\ hint_out' = <<>>
    /\ UNCHANGED <<const_vars, obj, step, warnings, issued, fb_installed, deps_result, end_vars, exec_vars>>

\* A variant of torch_verified that accepts a check printing nothing.
torch_verified_by_status(success_torch_check, stdout_torch_check) ==
    success_torch_check

\* Line 479: the check passes when the command succeeded and printed
\* something.
torch_verified(success_torch_check, stdout_torch_check) ==
    success_torch_check /\ Truthy(stdout_torch_check)

\* Lines 466-481.
Verification ==
    /\ pc = "verify"
    /\ last_call' = verify_call(obj)
    /\ \E r \in {Run(last_call', o) : o \in VerifyOutcomes} :
          LET verified == torch_verified(r.succeeded, r.stdout)
          IN /\ loc' = [loc EXCEPT !.success_torch_check = r.succeeded,
                                   !.stdout_torch_check = r.stdout]
             /\ IF verified
                THEN pc' = "numpy" /\ UNCHANGED deps_result
                ELSE PipelineReturn(FALSE)
             /\ verdict' = Judge("Verification", verified)
             /\ clean' = (clean /\ verified)
    /\ events' = events \o <<StageStart("Verification"), StageEnd("Verification")>>
    /\ hint_out' = <<>>
    /\ UNCHANGED <<const_vars, obj, step, warnings, issued, fb_installed, end_vars, exec_vars>>

\* A variant of ArrayLibraryPin in which a failed install ends the pipeline.
ArrayLibraryPin_fatal ==
    /\ pc = "numpy"
    /\ last_call' = install_package_call(obj, numpy_spec_to_try(host.minor))
    /\ \E ok \in Successes(last_call', PlainOutcomes) :
          /\ IF ok THEN pc' = "bulk" /\ UNCHANGED deps_result
             ELSE PipelineReturn(FALSE)
          /\ verdict' = Judge("ArrayLibraryPin", ok)
          /\ clean' = (clean /\ ok)
    /\ issued' = Append(issued, Issue("ArrayLibraryPin", numpy_spec_to_try(host.minor)))
    /\ events' = events \o <<StageStart("ArrayLibraryPin"), StageEnd("ArrayLibraryPin")>>
    /\ hint_out' = <<>>
    /\ UNCHANGED <<const_vars, obj, step, warnings, loc, fb_installed, end_vars, exec_vars>>

\* A variant of ArrayLibraryPin placed before the verification.
ArrayLibraryPin_before_verify ==
    /\ pc = "numpy"
    /\ last_call' = install_package_call(obj, numpy_spec_to_try(host.minor))
    /\ \E ok \in Successes(last_call', PlainOutcomes) :
          /\ pc' = "verify"
          /\ verdict' = Judge("ArrayLibraryPin", ok)
          /\ clean' = (clean /\ ok)
    /\ issued' = Append(issued, Issue("ArrayLibraryPin", numpy_spec_to_try(host.minor)))
    /\ events' = events \o <<StageStart("ArrayLibraryPin"), StageEnd("ArrayLibraryPin")>>
    /\ hint_out' = <<>>
    /\ UNCHANGED <<const_vars, obj, step, warnings, loc, fb_installed, deps_result, end_vars, exec_vars>>

\* Lines 483-488: the result only chooses the message printed.
ArrayLibraryPin ==
    /\ pc = "numpy"
    /\ last_call' = install_package_call(obj, numpy_spec_to_try(host.minor))
    /\ \E ok \in Successes(last_call', PlainOutcomes) :
          /\ pc' = "bulk"
          /\ verdict' = Judge("ArrayLibraryPin", ok)
          /\ clean' = (clean /\ ok)
    /\ issued' = Append(issued, Issue("ArrayLibraryPin", numpy_spec_to_try(host.minor)))
    /\ events' = events \o <<StageStart("ArrayLibraryPin"), StageEnd("ArrayLibraryPin")>>
    /\ hint_out' = <<>>
    /\ UNCHANGED <<const_vars, obj, step, warnings, loc, fb_installed, deps_result, end_vars, exec_vars>>

BulkErrTexts ==
    {EmptyTxt, Txt({"err"}), Txt({SigImpImporter}), Txt({SigFlashAttn}),
     Txt({SigFlashAttn, SigWheels}), Txt({SigSentencepiece, SigFileNotFound}),
     Txt({SigImpImporter, SigFlashAttn, SigWheels}),
     Txt({SigFlashAttn, SigWheels, SigSentencepiece, SigFileNotFound})}

BulkOutcomes == AnyOutcome({Txt({"out"})}, BulkErrTexts)

\* Lines 495-516: the manifest install and, on failure, the hints.
BulkRequirements ==
    /\ pc = "bulk"
    /\ last_call' = requirements_call(obj)
    /\ \E r \in {Run(last_call', o) : o \in BulkOutcomes} :
          /\ IF r.succeeded
             THEN /\ pc' = "gradio"
                  /\ hint_out' = <<>>
                  /\ loc' = NoLoc
             ELSE /\ pc' = "fallback"
                  /\ hint_out' = bulk_hints_for(r.stderr)
                  /\ loc' = [NoLoc EXCEPT !.idx = 1, !.stderr_req = r.stderr]
          /\ verdict' = Judge("BulkRequirements", r.succeeded)
          /\ clean' = (clean /\ r.succeeded)
    /\ events' = events \o <<StageStart("BulkRequirements"), StageEnd("BulkRequirements")>>
    /\ UNCHANGED <<const_vars, obj, step, warnings, issued, fb_installed, deps_result, end_vars, exec_vars>>

\* A variant of FallbackCriticalSet that goes back to the manifest install
\* when none of its packages installed.
FallbackCriticalSet_retries ==
    /\ pc = "fallback"
    /\ last_call' = install_package_call(obj, critical_pkgs[loc.idx])
    /\ \E ok \in Successes(last_call', PlainOutcomes) :
          LET ok_count == loc.ok_count + (IF ok THEN 1 ELSE 0)
              last == loc.idx = Len(critical_pkgs)
          IN /\ fb_installed' = (fb_installed \/ ok)
             /\ events' = events
                          \o (IF loc.idx = 1 THEN <<StageStart("FallbackCriticalSet")>> ELSE <<>>)
                          \o (IF last THEN <<StageEnd("FallbackCriticalSet")>> ELSE <<>>)
             /\ IF last /\ ok_count = 0
                THEN pc' = "bulk" /\ loc' = NoLoc /\ UNCHANGED deps_result
                ELSE IF last
                THEN PipelineReturn(ok_count > 0) /\ loc' = NoLoc
                ELSE /\ loc' = [NoLoc EXCEPT !.idx = loc.idx + 1, !.ok_count = ok_count]
                     /\ UNCHANGED <<pc, deps_result>>
    /\ issued' = Append(issued, Issue("FallbackCriticalSet", critical_pkgs[loc.idx]))
    /\ hint_out' = <<>>
    /\ UNCHANGED <<const_vars, obj, step, warnings, verdict, clean, end_vars, exec_vars>>

\* A variant of FallbackCriticalSet that stops at the first failed install.
FallbackCriticalSet_stops ==
    /\ pc = "fallback"
    /\ last_call' = install_package_call(obj, critical_pkgs[loc.idx])
    /\ \E ok \in Successes(last_call', PlainOutcomes) :
          LET ok_count == loc.ok_count + (IF ok THEN 1 ELSE 0)
              last == ~ok \/ loc.idx = Len(critical_pkgs)
          IN /\ fb_installed' = (fb_installed \/ ok)
             /\ events' = events
                          \o (IF loc.idx = 1 THEN <<StageStart("FallbackCriticalSet")>> ELSE <<>>)
                          \o (IF last THEN <<StageEnd("FallbackCriticalSet")>> ELSE <<>>)
             /\ IF last
                THEN PipelineReturn(ok_count > 0) /\ loc' = NoLoc
                ELSE /\ loc' = [NoLoc EXCEPT !.idx = loc.idx + 1, !.ok_count = ok_count]
                     /\ UNCHANGED <<pc, deps_result>>
    /\ issued' = Append(issued, Issue("FallbackCriticalSet", critical_pkgs[loc.idx]))
    /\ hint_out' = <<>>
    /\ UNCHANGED <<const_vars, obj, step, warnings, verdict, clean, end_vars, exec_vars>>

\* install_critical_packages_fallback (lines 520-528), one pass of its loop,
\* and install_requirements lines 517-518.
FallbackCriticalSet ==
    /\ pc = "fallback"
    /\ last_call' = install_package_call(obj, critical_pkgs[loc.idx])
    /\ \E ok \in Successes(last_call', PlainOutcomes) :
          LET ok_count == loc.ok_count + (IF ok THEN 1 ELSE 0)
              last == loc.idx = Len(critical_pkgs)
          IN /\ fb_installed' = (fb_installed \/ ok)
             /\ events' = events
                          \o (IF loc.idx = 1 THEN <<StageStart("FallbackCriticalSet")>> ELSE <<>>)
                          \o (IF last THEN <<StageEnd("FallbackCriticalSet")>> ELSE <<>>)
             /\ IF last
                THEN PipelineReturn(ok_count > 0) /\ loc' = NoLoc
                ELSE /\ loc' = [NoLoc EXCEPT !.idx = loc.idx + 1, !.ok_count = ok_count]
                     /\ UNCHANGED <<pc, deps_result>>
    /\ issued' = Append(issued, Issue("FallbackCriticalSet", critical_pkgs[loc.idx]))
    /\ hint_out' = <<>>
    /\ UNCHANGED <<const_vars, obj, step, warnings, verdict, clean, end_vars, exec_vars>>

\* install_gradio (lines 530-537): the presence check.  With a string base
\* command line 535 reads check_cmd_list_parts, which only the list branch
\* of line 534 assigns: UnboundLocalError leaves install_requirements.
EnsureGradio ==
    /\ pc = "gradio"
    /\ LET pip_base == get_pip_executable_cmd_list(obj)
           c == pip_command(pip_base, <<T("show"), T("gradio")>>, <<FALSE, FALSE>>)
       IN IF pip_base.type = "str"
          THEN Raise /\ UNCHANGED <<last_call, deps_result>>
                     /\ step' = Step("install_gradio", {}, <<>>, <<>>, FALSE)
          ELSE /\ last_call' = Call(c.command, c.shell, FALSE, obj.original_dir)
               /\ UNCHANGED rs_result
               /\ \E r \in {Run(last_call', o) : o \in PlainOutcomes} :
                     /\ step' = Step("install_gradio", {r.launch}, <<>>,
                                     <<Did("pip show gradio", r.succeeded)>>, TRUE)
                     /\ IF r.succeeded THEN PipelineReturn(TRUE)
                        ELSE pc' = "gradio_install" /\ UNCHANGED deps_result
    /\ UNCHANGED <<const_vars, obj, loc, events, issued, hint_out, warnings, fb_installed,
                   verdict, clean,
                   artifacts, exit_code, exec_vars>>

\* install_gradio (lines 538-541) and install_requirements line 506, which
\* returns True whatever install_gradio returned.
InstallGradio ==
    /\ pc = "gradio_install"
    /\ last_call' = install_package_call(obj, T("gradio"))
    /\ \E ok \in Successes(last_call', PlainOutcomes) :
          /\ step' = [step EXCEPT !.did = @ \o <<Did("pip install gradio", ok)>>,
                                  !.ok = ok]
          /\ PipelineReturn(TRUE)
    /\ issued' = Append(issued, Issue("install_gradio", T("gradio")))
    /\ UNCHANGED <<const_vars, obj, loc, events, hint_out, warnings, fb_installed,
                   verdict, clean,
                   end_vars, exec_vars>>

\* run_setup lines 621-624: the helper artifacts; a failed write is caught
\* and reported (lines 565 and 585).
RunSetupHelpers ==
    /\ pc = "helpers"
    /\ \E script_written \in BOOLEAN, guide_written \in BOOLEAN :
          artifacts' = (IF args.create_download_script /\ script_written
                        THEN {"download_model.py"} ELSE {})
                       \cup (IF guide_written THEN {"USAGE_GUIDE.md"} ELSE {})
    /\ Return(TRUE)
    /\ UNCHANGED <<const_vars, obj, step, pipe_vars, exit_code, exec_vars>>

\* main, lines 641-645: the exit status.
main_exit_code(result) ==
    CASE result = "true" -> 0
      [] result = "false" -> 1
      [] OTHER -> 2

MainExit ==
    /\ pc = "main_exit"
    /\ exit_code' = main_exit_code(rs_result)
    /\ pc' = "exited"
    /\ UNCHANGED <<const_vars, obj, step, pipe_vars, artifacts, rs_result, exec_vars>>

Next ==
    \/ MainSelectBackend
    \/ RunSetupProbe
    \/ CheckSystemRequirements
    \/ EnsureCondaInstalled
    \/ CheckPipInstallation
    \/ CloneRepository
    \/ UseExistingDir
    \/ CreateVenvEnvironment
    \/ CondaEnvironmentStart
    \/ CondaCreate
    \/ InstallRequirementsStart
    \/ ToolingUpgrade
    \/ FrameworkInstall
    \/ Verification
    \/ ArrayLibraryPin
    \/ BulkRequirements
    \/ FallbackCriticalSet
    \/ EnsureGradio
    \/ InstallGradio
    \/ RunSetupHelpers
    \/ MainExit

Spec == Init /\ [][Next]_vars

\* ------------------------------------------------------------------------
\* A whole run of main that the operator may interrupt (Ctrl-C).

\* The status of the process when KeyboardInterrupt reaches the top level of
\* the interpreter, which is what happens in main before line 641: on POSIX
\* the interpreter ends itself with SIGINT, which a shell reports as 130; on
\* Windows it exits with STATUS_CONTROL_C_EXIT (0xC000013A), shown here as the
\* signed 32-bit number that %ERRORLEVEL% holds.
unhandled_interrupt_status(system) ==
    IF system = "windows" THEN -1073741510 ELSE 130

\* main, lines 627-645: the status of a run interrupted before or inside the
\* try block (line 644).
interrupt_exit_code(in_try, system) ==
    IF in_try THEN 130 ELSE unhandled_interrupt_status(system)

\* KeyboardInterrupt is raised wherever the run is: in main before the try
\* block (argument parsing, detection of conda at line 638, construction of
\* the object) or inside run_setup, where no handler catches it (the handlers
\* of run_command and of the other steps catch Exception only).
Interrupt ==
    /\ pc \notin {"main_exit", "exited", "off"}
    /\ rs_result' = "interrupted"
    /\ exit_code' = interrupt_exit_code(pc # "main", obj.system)
    /\ pc' = "exited"
    /\ UNCHANGED <<const_vars, obj, step, pipe_vars, artifacts, exec_vars>>

\* The runs explored with interrupts: those of a host with Python 3.11.
InitInt == Init /\ host.minor = 11

NextInt == Next \/ Interrupt

SpecInt == InitInt /\ [][NextInt]_vars

\* ------------------------------------------------------------------------
\* run_command on its own: a caller invokes it with some command and flags.

MainOff ==
    /\ pc = "off"
    /\ args = [backend |-> "venv", clone_repo |-> FALSE, install_deps |-> FALSE,
               create_download_script |-> FALSE]
    /\ host = [minor |-> 11, sys_executable |-> SysExecutable("linux")]
    /\ obj = [env_name |-> T("bagel_env"), use_conda |-> FALSE, system |-> "linux",
              python_executable |-> SysExecutable("linux"),
              original_dir |-> <<"/", "home", "/", "user">>,
              bagel_repo_dir |-> <<"/", "home", "/", "user", "/", "BAGEL">>]
    /\ step = NoStep
    /\ loc = NoLoc
    /\ events = <<>>
    /\ issued = <<>>
    /\ last_call = NoCall
    /\ hint_out = <<>>
    /\ warnings = {}
    /\ fb_installed = FALSE
    /\ verdict = NoVerdict
    /\ clean = TRUE
    /\ artifacts = {}
    /\ deps_result = "unset"
    /\ rs_result = "running"
    /\ exit_code = -1

InitExec ==
    /\ MainOff
    /\ ex_pc = "call"
    /\ ex_call \in {Call(c, sh, ck, <<>>) : c \in ExecCommands, sh \in BOOLEAN, ck \in BOOLEAN}
                   \cup {[Call(c, sh, ck, <<>>) EXCEPT !.capture_output = FALSE] :
                           c \in ExecCommands, sh \in BOOLEAN, ck \in BOOLEAN}
    /\ ex_ret = NoRet
    /\ ex_outcome = CHOOSE o \in FaultOutcomes({"error"}) : TRUE

ExecRunCommand ==
    /\ ex_pc = "call"
    /\ \E outcome \in ExecOutcomes :
          /\ ex_outcome' = outcome
          /\ ex_ret' = run_command(ex_call.command, ex_call.capture_output,
                                   ex_call.check, ex_call.shell, outcome)
    /\ ex_pc' = "done"
    /\ UNCHANGED <<ex_call, main_vars>>

NextExec == ExecRunCommand

SpecExec == InitExec /\ [][NextExec]_vars

\* ------------------------------------------------------------------------
\* Properties of run_command, checked under SpecExec.

\* The launch of the explored call failed: the executable was not found, the
\* launch raised another error, or the process exited nonzero under check.
LaunchFailed ==
    \/ ex_ret.launch \in {"notfound", "error"}
    \/ ex_ret.launch = "nonzero" /\ ex_call.check

\* What the process wrote, as communicate() hands it over and `or ""` keeps it.
CapturedOut == OrEmpty(IF ex_call.capture_output THEN ex_outcome.out ELSE NoneTxt)
CapturedErr == OrEmpty(IF ex_call.capture_output THEN ex_outcome.err ELSE NoneTxt)

\* C1: for every command (argument list, shell string, or a string that
\* cannot be tokenized) and every launch outcome, run_command called with
\* check=False returns a (succeeded, stdout, stderr) tuple of a bool and two
\* strings and never raises.
C1_UncheckedNeverRaises ==
    ex_pc = "done" /\ ~ex_call.check =>
        /\ ex_ret.raised = "none"
        /\ ~ex_ret.stdout.isNone
        /\ ~ex_ret.stderr.isNone

\* C2: every failure of the launch (executable not found, nonzero exit under
\* check=True, other launch error) comes back to the caller as a returned
\* result with succeeded = False: a nonzero exit under check=True carries
\* the captured stdout and stderr, a missing executable carries an empty
\* stdout, and no exception leaves run_command.
C2_FailuresAreReturned ==
    ex_pc = "done" /\ LaunchFailed =>
        /\ ex_ret.raised = "none"
        /\ ~ex_ret.succeeded
        /\ ex_ret.launch = "nonzero" =>
               ex_ret.stdout = CapturedOut /\ ex_ret.stderr = CapturedErr
        /\ ex_ret.launch = "notfound" => ex_ret.stdout = EmptyTxt

\* ------------------------------------------------------------------------
\* Properties of the Installation Pipeline, checked under Spec.

IsStart(e) == e[1] = "start"

\* The stages started so far, in order.
Starts == SelectSeq(events, IsStart)

StageIndex(stage) == CHOOSE i \in 1..Len(StageOrder) : StageOrder[i] = stage

Count(e) == Cardinality({i \in 1..Len(events) : events[i] = e})

Started(stage) == Count(StageStart(stage)) > 0

Ended(stage) == Count(StageEnd(stage)) > 0

\* The stage is the latest of stages 1 to 5 to have run a command, and a
\* command of it has failed.
Failed(stage) == verdict = [stage |-> stage, failed |-> TRUE]

\* The packages whose install the stage has issued, in order.
IssuedBy(stage) ==
    LET own == SelectSeq(issued, LAMBDA i : i.stage = stage)
    IN [k \in 1..Len(own) |-> own[k].pkg]

\* install_requirements has returned.
PipelineDone == deps_result # "unset"

\* The run is past the pipeline.
PastPipeline == pc \in {"helpers", "main_exit", "exited"}

\* C3: the stages that run start in the order ToolingUpgrade,
\* FrameworkInstall, Verification, ArrayLibraryPin, BulkRequirements,
\* FallbackCriticalSet; no stage starts before the previous one has finished
\* and no stage runs more than once.
C3_StagesInOrder ==
    /\ \A i, j \in 1..Len(Starts) :
          i < j => StageIndex(Starts[i][2]) < StageIndex(Starts[j][2])
    /\ \A k \in 1..Len(events) :
          IF k % 2 = 1 THEN IsStart(events[k])
          ELSE events[k] = StageEnd(events[k - 1][2])

\* A run in which all six stages have run.
C3_AllSixRan ==
    /\ PastPipeline
    /\ Starts = [i \in 1..Len(StageOrder) |-> StageStart(StageOrder[i])]

\* C4 as claimed: FallbackCriticalSet runs if and only if BulkRequirements
\* or Verification fails.
C4_FallbackIffBulkOrVerificationFails ==
    PipelineDone =>
        (Started("FallbackCriticalSet")
            <=> (Failed("BulkRequirements") \/ Failed("Verification")))

\* C4, amended: FallbackCriticalSet runs if and only if BulkRequirements
\* runs and fails; a Verification failure ends the pipeline with a failure
\* result and the fallback does not run.
C4_FallbackIffBulkFails ==
    /\ Started("FallbackCriticalSet") => Failed("BulkRequirements")
    /\ Failed("BulkRequirements") => pc = "fallback" \/ Started("FallbackCriticalSet")
    /\ PipelineDone => (Ended("FallbackCriticalSet") <=> Failed("BulkRequirements"))
    /\ Failed("Verification") =>
           PipelineDone /\ deps_result = "false" /\ ~Started("FallbackCriticalSet")

\* The manifest install failed and the fallback has run to its end.
C4_FallbackRanAfterBulkFailure ==
    /\ PipelineDone
    /\ Failed("BulkRequirements")
    /\ Ended("FallbackCriticalSet")

\* C5: a BulkRequirements failure triggers FallbackCriticalSet exactly once
\* per run: after the fallback starts neither BulkRequirements nor
\* FallbackCriticalSet is entered again, whatever the fallback installs do.
C5_FallbackOnce ==
    /\ Count(StageStart("BulkRequirements")) <= 1
    /\ Count(StageStart("FallbackCriticalSet")) <= 1
    /\ \A i, j \in 1..Len(events) :
          events[i] = StageStart("FallbackCriticalSet") /\ i < j =>
              events[j] \notin {StageStart("BulkRequirements"),
                                StageStart("FallbackCriticalSet")}
    /\ Started("FallbackCriticalSet") => pc = "fallback" \/ PastPipeline
    /\ Ended("FallbackCriticalSet") => PastPipeline
    /\ Failed("BulkRequirements") /\ PipelineDone =>
           Count(StageStart("FallbackCriticalSet")) = 1

\* The fallback has run once after a manifest failure, every one of its
\* installs failing, and the run is over.
C5_FallbackRanOnceAllFailing ==
    /\ pc = "exited"
    /\ Failed("BulkRequirements")
    /\ Count(StageStart("FallbackCriticalSet")) = 1
    /\ Ended("FallbackCriticalSet")
    /\ ~fb_installed

C7_UpgradeWarnOnly ==
    /\ pc = "upgrade" =>
           IssuedBy("ToolingUpgrade") = SubSeq(upgrade_pkgs, 1, loc.idx - 1)
    /\ Started("ToolingUpgrade") /\ pc # "upgrade" =>
           /\ IssuedBy("ToolingUpgrade") = upgrade_pkgs
           /\ Ended("ToolingUpgrade")
    /\ verdict.stage = "ToolingUpgrade" /\ pc # "upgrade" =>
           pc = "framework" /\ deps_result = "unset"

\* An upgrade has failed, all three have been attempted and FrameworkInstall
\* is next.
C7_FailedUpgradeThenFramework ==
    /\ pc = "framework"
    /\ Failed("ToolingUpgrade")
    /\ IssuedBy("ToolingUpgrade") = upgrade_pkgs

\* C8: if every stage from ToolingUpgrade through BulkRequirements succeeds,
\* the pipeline completes stages 1 to 5, FallbackCriticalSet is skipped (no
\* critical-package install is issued) and the run ends with exit code 0.
C8_CleanRunExitsZero ==
    pc = "exited" /\ clean /\ Ended("BulkRequirements") =>
        /\ Starts = [i \in 1..5 |-> StageStart(StageOrder[i])]
        /\ IssuedBy("FallbackCriticalSet") = <<>>
        /\ exit_code = 0

\* C9: FallbackCriticalSet attempts every package of the critical list
\* exactly once, in list order, continuing past failures, and reports
\* success if and only if at least one of them installed; when it reports
\* success the run ends with exit code 0.
C9_FallbackAttemptsAll ==
    /\ pc = "fallback" =>
           /\ IssuedBy("FallbackCriticalSet") = SubSeq(critical_pkgs, 1, loc.idx - 1)
           /\ (loc.ok_count > 0) <=> fb_installed
    /\ Started("FallbackCriticalSet") /\ pc # "fallback" =>
           /\ IssuedBy("FallbackCriticalSet") = critical_pkgs
           /\ (deps_result = "true") <=> fb_installed
           /\ pc = "exited" /\ fb_installed => exit_code = 0

\* The fallback reported success after a manifest failure and the run is
\* over.
C9_FallbackSucceededRunOver ==
    /\ pc = "exited"
    /\ Failed("BulkRequirements")
    /\ IssuedBy("FallbackCriticalSet") = critical_pkgs
    /\ fb_installed
    /\ deps_result = "true"

\* The signatures of lines 509, 511 and 513, in their order.
LegacySetuptools(t) == Has(t, SigImpImporter)
TensorAttentionBuild(t) == Has(t, SigFlashAttn) /\ Has(t, SigWheels)
TokenizerBuild(t) == Has(t, SigSentencepiece) /\ Has(t, SigFileNotFound)

FirstMatchingHint(t) ==
    IF LegacySetuptools(t) THEN <<"ImpImporter">>
    ELSE IF TensorAttentionBuild(t) THEN <<"flash-attn">>
    ELSE IF TokenizerBuild(t) THEN <<"sentencepiece">>
    ELSE <<>>

\* C10: when BulkRequirements fails the pipeline always proceeds to
\* FallbackCriticalSet, whether or not the captured error text matches a
\* known signature; at most one remediation hint is printed, the one of the
\* first matching signature in the order legacy-setuptools, tensor-attention
\* build, tokenizer build.
C10_BulkFailureHintsThenFallback ==
    /\ Len(hint_out) <= 1
    /\ Failed("BulkRequirements") =>
           /\ pc = "fallback" \/ Started("FallbackCriticalSet")
           /\ ~Started("FallbackCriticalSet") =>
                  hint_out = FirstMatchingHint(loc.stderr_req)
    /\ hint_out # <<>> => Failed("BulkRequirements") /\ pc = "fallback"

\* The manifest install failed with two signatures in its error text: the
\* hint of the first is printed and the fallback is next.
C10_TwoSignaturesFirstHint ==
    /\ pc = "fallback"
    /\ ~Started("FallbackCriticalSet")
    /\ LegacySetuptools(loc.stderr_req)
    /\ TensorAttentionBuild(loc.stderr_req)
    /\ hint_out = <<"ImpImporter">>

\* ------------------------------------------------------------------------
\* Steps outside the pipeline stages.

\* What the latest step carried out, without the results.
Tags(did) == {did[k][1] : k \in 1..Len(did)}

\* The step carried out the command or effect.
StepDid(what) == what \in Tags(step.did)

\* The run is over with the given exit code.
Exited(code) == pc = "exited" /\ exit_code = code

\* C11: the web-UI helper runs on every path through the pipeline that ends
\* in success, after BulkRequirements as after FallbackCriticalSet, and
\* whenever its presence check finds the package absent (pip show ends with
\* a nonzero exit code) it issues an install of the package.
C11_GradioEnsuredOnSuccess ==
    (PastPipeline /\ deps_result = "true") =>
        /\ step.name = "install_gradio"
        /\ "nonzero" \in step.saw => StepDid("pip install gradio")

\* The latest step is the Repository Fetcher's, run on a clone request.
Fetched == step.name = "fetch" /\ "no-clone" \notin step.saw

\* The environment step has not begun and no stage of the pipeline has run.
NothingProvisioned ==
    /\ step.name # "env"
    /\ pc \notin {"env", "conda_create", "deps"}
    /\ obj.python_executable = host.sys_executable
    /\ events = <<>>
    /\ issued = <<>>
    /\ deps_result = "unset"

\* The operator declined the alternate clone next to a target directory that
\* exists and is not a checkout.
DeclinedAlternateClone ==
    /\ Fetched
    /\ step.saw = {"exists"}
    /\ step.answers = <<"n">>

\* C12: the target directory exists, is not a checkout, and the operator
\* declines the alternate clone: the fetcher fails without a clone or pull
\* command, no environment is provisioned and the run ends with exit code 1.
C12_DeclinedAlternateCloneFails ==
    DeclinedAlternateClone =>
        /\ step.did = <<>>
        /\ ~step.ok
        /\ NothingProvisioned
        /\ \/ pc = "main_exit" /\ rs_result = "false"
           \/ Exited(1)

\* The run is over after the operator declined the alternate clone.
C12_ExitedAfterDecline == DeclinedAlternateClone /\ Exited(1)

\* C13: a missing target directory is always cloned; for an existing
\* checkout, skipping the update succeeds without any version-control
\* command and updating succeeds exactly when the pull succeeds; a failed
\* clone or pull fails the fetch and the run ends with exit code 1 before any
\* environment is provisioned.
C13_FetchFollowsCloneAndPull ==
    Fetched =>
        /\ "exists" \notin step.saw =>
               Tags(step.did) = {"git clone"} /\ Len(step.did) = 1
        /\ (step.saw = {"exists", "checkout"} /\ step.answers = <<"n">>) =>
               step.did = <<>> /\ step.ok
        /\ (step.saw = {"exists", "checkout"} /\ step.answers = <<"y">>) =>
               step.did = <<Did("git pull", step.ok)>>
        /\ (\E k \in 1..Len(step.did) : ~step.did[k][2]) =>
               /\ ~step.ok
               /\ NothingProvisioned
               /\ \/ pc = "main_exit" /\ rs_result = "false"
                  \/ Exited(1)
        /\ step.ok => pc = "env" /\ rs_result = "running"

\* The run is over after the pull of an existing checkout failed.
C13_ExitedAfterFailedPull ==
    /\ Fetched
    /\ step.did = <<Did("git pull", FALSE)>>
    /\ Exited(1)

\* The commands and effects that involve the system-level manager.
CondaTags ==
    {"conda --version", "download", "installer", "conda init", "manual instructions",
     "conda env list", "conda env remove", "conda env list --json"}
    \cup {conda_create_did(v) : v \in HostMinors}

\* The command of the call starts with the conda wrapper.
CondaForm(call) ==
    /\ call.command.val # <<>>
    /\ IF call.command.type = "list" THEN call.command.val[1] = T("conda")
       ELSE call.command.val[1] = "conda"

\* The command of the call starts with the interpreter of the environment.
InterpreterForm(call) ==
    LET exe == obj.python_executable
    IN IF call.command.type = "list" THEN call.command.val[1] = exe
       ELSE /\ Len(call.command.val) > Len(exe)
            /\ SubSeq(call.command.val, 2, Len(exe) + 1) = exe

\* The interpreter path is that of the virtual environment in the working
\* directory.
VenvInterpreter ==
    obj.python_executable =
        update_python_executable_for_venv(
            obj, obj.original_dir \o <<Sep(obj.system)>> \o obj.env_name).python_executable

\* C15: when the operator forces the virtual-environment backend the
\* selector goes directly to the virtual environment: the run has no
\* detection, installation or prompt of the system-level manager anywhere,
\* and every environment and installer command has the virtual-environment
\* form.
C15_ForcedVenvNeverTouchesConda ==
    args.backend = "venv" =>
        /\ ~obj.use_conda
        /\ pc \notin {"conda", "conda_create"}
        /\ step.name # "conda"
        /\ Tags(step.did) \cap CondaTags = {}
        /\ step.name = "select" => step.did = <<>> /\ step.answers = <<>>
        /\ step.name = "env" => Tags(step.did) \subseteq {"rmtree", "python -m venv"}
        /\ last_call # NoCall =>
               /\ ~CondaForm(last_call)
               /\ InterpreterForm(last_call)
               /\ VenvInterpreter

\* A run with the virtual environment forced has installed packages and is
\* over.
C15_ForcedVenvRunInstalled ==
    /\ args.backend = "venv"
    /\ issued # <<>>
    /\ last_call # NoCall
    /\ Exited(0)

\* The selector found the system-level manager absent, and the automatic
\* installation the operator chose has failed: its last command or effect
\* did not succeed.
AutoInstallFailed ==
    /\ step.name = "conda"
    /\ StepDid("download")
    /\ ~step.did[Len(step.did)][2]

\* run_setup has returned failure, or the run is over with exit code 1.
Aborted ==
    \/ pc = "main_exit" /\ rs_result = "false"
    \/ Exited(1)

CondaSkipped ==
    /\ step.name = "conda"
    /\ step.did = <<Did("conda --version", FALSE)>>
    /\ step.answers \in {<<"3">>, <<"n">>}

\* C17: when the system-level manager is unavailable and the operator skips
\* its installation, the backend becomes the virtual environment and the run
\* is not aborted: it continues on the virtual-environment path; from then on
\* the backend never changes, and no environment or installer command uses
\* the conda wrapper.
C17_SkipDegradesToVenv ==
    /\ [](CondaSkipped => ~obj.use_conda /\ pc = "pip" /\ rs_result = "running")
    /\ []((pc # "main" /\ ~obj.use_conda) =>
             /\ pc \notin {"conda", "conda_create"}
             /\ step.name = "env" => Tags(step.did) \cap CondaTags = {}
             /\ last_call # NoCall => ~CondaForm(last_call) /\ InterpreterForm(last_call))
    /\ [][(pc # "main" /\ ~obj.use_conda) => ~obj'.use_conda]_vars

\* Conda was forced on the command line and the run is over, having installed
\* packages with the virtual environment: the operator skipped.
C17_SkippedRunInstalled ==
    /\ args.backend = "conda"
    /\ ~obj.use_conda
    /\ issued # <<>>
    /\ last_call # NoCall
    /\ Exited(0)

\* The create commands of the conda environment step so far, in order, as
\* pairs of command and result.
Creates ==
    IF step.name = "env" /\ obj.use_conda
    THEN SelectSeq(step.did, LAMBDA d : d[1] \in {conda_create_did(v) : v \in HostMinors})
    ELSE <<>>

\* C18: with no existing environment under the system-manager backend the
\* interpreter versions are tried in the documented preference order, the
\* host's own minor version first when it is within the known-good range (up
\* to 3.11) and the fixed fallback list after it; each candidate is tried at
\* most once and no create command follows the first success.
C18_HostVersionTriedFirst ==
    Creates # <<>> =>
        /\ host.minor <= 11 => Creates[1][1] = conda_create_did(host.minor)
        /\ \A j, k \in 1..Len(Creates) : Creates[j][1] = Creates[k][1] => j = k
        /\ \A k \in 1..Len(Creates) : Creates[k][2] => k = Len(Creates)

\* Every candidate version has been tried and every create command failed.
AllCandidatesFailed ==
    /\ Len(Creates) = Len(py_versions_to_try(host.minor))
    /\ \A k \in 1..Len(Creates) : ~Creates[k][2]

\* C19: when the create command fails for every candidate version the
\* environment creation reports failure: the interpreter path is left as it
\* was, no installation stage runs and the run ends with exit code 1.
C19_ExhaustedCandidatesAbort ==
    AllCandidatesFailed =>
        /\ ~step.ok
        /\ obj.python_executable = host.sys_executable
        /\ events = <<>>
        /\ issued = <<>>
        /\ last_call = NoCall
        /\ deps_result = "unset"
        /\ Aborted

\* The run is over after the create command failed for all three candidates.
C19_ExitedAfterThreeFailedCreates ==
    /\ AllCandidatesFailed
    /\ Len(Creates) = 3
    /\ Exited(1)

\* The environment exists and the operator chose to reuse it.
Reused ==
    /\ step.name = "env"
    /\ "exists" \in step.saw
    /\ step.answers = <<"u">>

\* The interpreter path is that of the named conda environment.
CondaInterpreter ==
    obj.python_executable =
        update_python_executable_for_conda_env(obj, TRUE).python_executable

\* Reuse has changed nothing: the step ran no remove or create command and
\* no package has been installed.
ReuseLeftUnmodified ==
    /\ Tags(step.did) \subseteq {"conda env list", "conda env list --json"}
    /\ events = <<>>
    /\ issued = <<>>
    /\ last_call = NoCall

C14_ExitStatusOfEveryRun ==
    /\ pc # "exited" => exit_code = -1
    /\ pc = "exited" =>
           /\ exit_code \in {0, 1, 2, 130}
           /\ exit_code = 0 <=> rs_result = "true"
           /\ exit_code = 1 <=> rs_result = "false"
           /\ exit_code = 130 <=> rs_result = "interrupted"
           /\ exit_code = 2 <=> rs_result = "exception"

\* The registry query of the conda environment step did not resolve the
\* interpreter: the query failed, or its output could not be decoded, did
\* not list the environment, or named an interpreter file that is absent.
Unresolved ==
    /\ step.name = "env"
    /\ obj.use_conda
    /\ step.saw \cap {"unresolved", "failed"} # {}

\* The provisioning has returned success: the run is at or past the start
\* of the installation.
Provisioned ==
    pc \in {"deps", "upgrade", "framework", "verify", "numpy", "bulk", "fallback",
            "gradio", "gradio_install", "helpers"}

PipelineReached ==
    \/ pc \in {"upgrade", "framework", "verify", "numpy", "bulk", "fallback",
               "gradio", "gradio_install"}
    \/ events # <<>>

\* The step changes the interpreter path.
WritesInterpreterPath == obj'.python_executable # obj.python_executable

ThroughCondaRun(call) ==
    LET prefix == <<"conda", SP, "run", SP, "-n", SP>> \o obj.env_name \o <<SP>>
    IN /\ call.command.type = "str"
       /\ Len(call.command.val) > Len(prefix)
       /\ SubSeq(call.command.val, 1, Len(prefix)) = prefix

\* C23: under the system-manager backend every package-installer and
\* verification command of the pipeline (upgrade, framework, verification,
\* array-library pin, bulk, fallback, web-UI helper) goes through the
\* manager's run-in-environment wrapper for the named environment and is
\* executed with shell interpretation.
C23_CondaCommandsThroughWrapper ==
    (obj.use_conda /\ last_call # NoCall) =>
        /\ last_call.shell
        /\ ThroughCondaRun(last_call)

\* The web-UI helper has run its install command under the system-manager
\* backend, after every earlier stage.
C23_CondaGradioInstallIssued ==
    /\ obj.use_conda
    /\ step.name = "install_gradio"
    /\ StepDid("pip install gradio")
    /\ ThroughCondaRun(last_call)

\* The host is Windows and the resolved interpreter path contains a marker of
\* a compiler-toolchain distribution ("msys" or "mingw").
ToolchainInterpreter ==
    /\ obj.system = "windows"
    /\ \E i \in 1..Len(obj.python_executable) : obj.python_executable[i] \in MarkerAtoms

\* The command of the call is a shell string that begins with the
\* interpreter path in double quotes.
QuotedInterpreterString(call) ==
    LET quoted == <<DQ>> \o obj.python_executable \o <<DQ, SP>>
    IN /\ call.shell
       /\ call.command.type = "str"
       /\ Len(call.command.val) > Len(quoted)
       /\ SubSeq(call.command.val, 1, Len(quoted)) = quoted

\* The command of the call is an argument list, run without a shell, whose
\* first element is the interpreter path.
DirectInterpreterList(call) ==
    /\ ~call.shell
    /\ call.command.type = "list"
    /\ call.command.val[1] = obj.python_executable

\* C24: under the virtual-environment backend every installer command is a
\* direct argument list, without a shell, whose first element is the
\* resolved interpreter of the environment, except exactly when the host is
\* Windows and the resolved interpreter path contains the compiler-toolchain
\* marker: then, and only then, the command is a shell string with the
\* interpreter path quoted.
C24_VenvCommandForm ==
    (~obj.use_conda /\ last_call # NoCall) =>
        /\ VenvInterpreter
        /\ IF ToolchainInterpreter
           THEN QuotedInterpreterString(last_call)
           ELSE DirectInterpreterList(last_call)

\* The fallback has installed packages with the shell-string form of the
\* command, on Windows with a toolchain interpreter.
C24_ToolchainFallbackInstalled ==
    /\ ~obj.use_conda
    /\ ToolchainInterpreter
    /\ fb_installed
    /\ QuotedInterpreterString(last_call)

\* A step that needs the network is requested: the fetch, the dependency
\* install or the helper download script.
NetworkStepRequested ==
    args.clone_repo \/ args.install_deps \/ args.create_download_script

\* C25: the connectivity probe runs exactly once per run, before any fetch,
\* provisioning or installation command.  When it returns false and a step
\* that needs the network is requested, the run continues only if the
\* operator confirms, and otherwise ends with exit code 1 without any
\* further command; when no such step is requested, or the probe returns
\* true, the operator is not prompted.
C25_ProbeOnceThenGate ==
    /\ [](pc \in {"main", "probe"} =>
             /\ step.name \in {"none", "select"}
             /\ Tags(step.did) \subseteq {"conda --version"}
             /\ NothingProvisioned
             /\ last_call = NoCall)
    /\ [](step.name = "probe" =>
             /\ step.did \in {<<Did("urlopen", TRUE)>>, <<Did("urlopen", FALSE)>>}
             /\ IF step.did[1][2] \/ ~NetworkStepRequested
                THEN /\ step.answers = <<>>
                     /\ pc = "sysreq" /\ rs_result = "running"
                ELSE /\ step.answers \in {<<"y">>, <<"n">>}
                     /\ IF step.answers = <<"y">>
                        THEN pc = "sysreq" /\ rs_result = "running"
                        ELSE /\ ~step.ok
                             /\ Aborted
                             /\ NothingProvisioned
                             /\ last_call = NoCall)
    /\ [][/\ pc' = "probe" => pc = "main"
          /\ pc = "probe" => pc' # "probe"
          /\ pc # "main" => pc' # "main"
          /\ (step' # step /\ step'.name = "probe") => pc = "probe"]_vars

\* The probe failed, the operator did not confirm, and the run is over.
C25_ExitedOffline ==
    /\ step = Step("probe", {}, <<"n">>, <<Did("urlopen", FALSE)>>, FALSE)
    /\ Exited(1)

\* seq is an initial part of full.
IsPrefix(seq, full) ==
    /\ Len(seq) <= Len(full)
    /\ seq = SubSeq(full, 1, Len(seq))

\* The three tiers of the framework family, as package specifications.
UnpinnedFamily == <<T("torch"), T("torchvision"), T("torchaudio")>>

CurrentPinnedFamily ==
    <<<<"torch", ">", "=2.1">>, <<"torchvision", ">", "=0.16">>, <<"torchaudio", ">", "=2.1">>>>

OlderPinnedFamily == <<<<"torch", ">", "=2.0.0">>, T("torchvision"), T("torchaudio")>>

\* C26: FrameworkInstall takes its package specifications from the minor
\* version of the host interpreter alone, in three tiers: 13 and later the
\* unpinned family, with the warning that stable builds may be missing; 12
\* the current pinned tier; 11 and earlier the older pinned tier.  Neither
\* the backend nor the interpreter of the provisioned environment matters.
C26_FrameworkTierFromHostMinor ==
    LET family == IssuedBy("FrameworkInstall")
    IN /\ IsPrefix(family,
                   CASE host.minor >= 13 -> UnpinnedFamily
                     [] host.minor = 12 -> CurrentPinnedFamily
                     [] OTHER -> OlderPinnedFamily)
       /\ Started("FrameworkInstall") <=> family # <<>>
       /\ warnings # {} <=> (Started("FrameworkInstall") /\ host.minor >= 13)

\* On a host with Python 3.13 the whole unpinned family has been installed
\* into an environment of the system-level manager, after the warning.
C26_UnpinnedFamilyUnderConda ==
    /\ host.minor = 13
    /\ obj.use_conda
    /\ IssuedBy("FrameworkInstall") = UnpinnedFamily
    /\ warnings # {}

\* ------------------------------------------------------------------------
\* C27.  The shell string run_command builds from an argument list.

\* The string handed to the shell for an argument list (line 73), which is
\* also the string logged (line 74).
ShellString(argv) == command_to_log([type |-> "list", val |-> argv], TRUE)

\* The text has a double quote at both ends.
InDoubleQuotes(text) == Len(text) >= 2 /\ Head(text) = DQ /\ text[Len(text)] = DQ

\* C27: for every argument list run_command has been called on with a shell,
\* each argument that contains a space is enclosed in double quotes in the
\* shell string it builds, and splitting that string with shlex.split gives
\* back the argument list.
C27_ShellStringRoundTrips ==
    (ex_pc = "done" /\ ex_call.command.type = "list" /\ ex_call.shell) =>
        LET argv == ex_call.command.val
        IN /\ \A i \in 1..Len(argv) :
                 Contains(argv[i], SP) => InDoubleQuotes(l2c_arg(argv[i]))
           /\ shlex_split(ShellString(argv)) = [ok |-> TRUE, toks |-> argv]

\* ------------------------------------------------------------------------
\* C28.  FrameworkInstall and Verification are fatal to the pipeline.

\* The web-UI helper (install_gradio) has run.
GradioHelperRan == step.name = "install_gradio"

\* None of the stages after Verification has started, nor the web-UI helper.
NothingAfterVerification ==
    /\ ~Started("ArrayLibraryPin")
    /\ ~Started("BulkRequirements")
    /\ ~Started("FallbackCriticalSet")
    /\ ~GradioHelperRan

\* What the verification command was seen to do.
CheckPassed == loc.success_torch_check /\ Truthy(loc.stdout_torch_check)

\* C28: FrameworkInstall installs the packages of its family in order and
\* stops at the first one that fails; Verification fails when its command
\* fails or prints nothing.  After either failure install_requirements
\* returns failure, and ArrayLibraryPin, BulkRequirements,
\* FallbackCriticalSet and the web-UI helper do not run.
C28_FatalStagesStopThePipeline ==
    LET tier == pt_pip_specs(host.minor)
        family == IssuedBy("FrameworkInstall")
    IN /\ pc = "framework" =>
              /\ family = SubSeq(tier, 1, loc.idx - 1)
              /\ ~Failed("FrameworkInstall")
       /\ Failed("FrameworkInstall") =>
              /\ family # <<>> /\ IsPrefix(family, tier)
              /\ PastPipeline /\ deps_result = "false"
              /\ ~Started("Verification")
              /\ NothingAfterVerification
       /\ Started("Verification") => family = tier
       /\ pc = "numpy" => CheckPassed /\ ~Failed("Verification")
       /\ Failed("Verification") =>
              /\ ~CheckPassed
              /\ PastPipeline /\ deps_result = "false"
              /\ NothingAfterVerification

\* A run that is over after the verification command succeeded and printed
\* nothing.
C28_ExitedAfterSilentVerification ==
    /\ pc = "exited"
    /\ Failed("Verification")
    /\ loc.success_torch_check
    /\ ~Truthy(loc.stdout_torch_check)
    /\ NothingAfterVerification

\* ------------------------------------------------------------------------
\* C29.  Recreating an existing environment.

\* The environment exists and the operator's answer is neither use nor skip.
Recreating ==
    /\ step.name = "env"
    /\ "exists" \in step.saw
    /\ step.answers # <<>>
    /\ step.answers[1] \notin {"u", "s"}

RemovalTags == {"rmtree", "conda env remove"}

CreateTags == {"python -m venv"} \cup {conda_create_did(v) : v \in HostMinors}

\* Where the step carried out one of the commands or effects.
Positions(tags) == {k \in 1..Len(step.did) : step.did[k][1] \in tags}

\* C29: when an existing environment is recreated (the answer is anything
\* but use or skip), under either backend the environment is removed once,
\* before any create command; when the removal fails no create command is
\* issued, the interpreter path is left as it was, and provisioning fails;
\* when it succeeds the create follows.  No other answer removes anything.
C29_RecreateRemovesFirst ==
    /\ Recreating =>
          /\ Cardinality(Positions(RemovalTags)) = 1
          /\ \A r \in Positions(RemovalTags) :
                /\ \A c \in Positions(CreateTags) : r < c
                /\ ~step.did[r][2] =>
                      /\ Positions(CreateTags) = {}
                      /\ ~step.ok
                      /\ obj.python_executable = host.sys_executable
                      /\ Aborted
                /\ step.did[r][2] /\ Positions(CreateTags) = {} =>
                      pc = "conda_create" /\ loc.idx = 1
    /\ ~Recreating => Positions(RemovalTags) = {}

\* A run that is over after the operator answered the prompt with an empty
\* line and the removal of the existing Conda environment failed.
C29_ExitedAfterFailedRemoval ==
    /\ Recreating
    /\ step.answers = <<"">>
    /\ step.did = <<Did("conda env list", TRUE), Did("conda env remove", FALSE)>>
    /\ Exited(1)

\* ------------------------------------------------------------------------
\* C30.  ArrayLibraryPin is warn-only.

\* ArrayLibraryPin is the latest stage to have run a command.
PinJustRan == verdict.stage = "ArrayLibraryPin"

\* C30: whether the install of ArrayLibraryPin succeeds or fails, the
\* pipeline goes on to BulkRequirements without returning; when the
\* pipeline reports failure after ArrayLibraryPin has run, the manifest
\* install has failed and the fallback has installed nothing, so the failure
\* of ArrayLibraryPin alone never makes the pipeline report failure.
C30_PinWarnOnly ==
    /\ PinJustRan =>
          /\ pc = "bulk"
          /\ deps_result = "unset"
          /\ Ended("ArrayLibraryPin")
          /\ ~Started("BulkRequirements")
    /\ Started("ArrayLibraryPin") /\ ~PinJustRan => Started("BulkRequirements")
    /\ Started("ArrayLibraryPin") /\ deps_result = "false" =>
          /\ Failed("BulkRequirements")
          /\ Ended("FallbackCriticalSet")
          /\ ~fb_installed

\* The install of ArrayLibraryPin has failed and BulkRequirements is next.
C30_PinFailedBulkNext ==
    /\ Failed("ArrayLibraryPin")
    /\ IssuedBy("ArrayLibraryPin") = <<numpy_spec_to_try(host.minor)>>
    /\ pc = "bulk"
    /\ deps_result = "unset"

\* ------------------------------------------------------------------------
\* C31.  Manual installation of Conda on Windows.

\* Conda was absent on a Windows host, the operator chose the manual
\* installation, confirmed having carried it out, and conda --version then
\* found Conda.
ManualInstallDetected ==
    /\ obj.system = "windows"
    /\ step.name = "conda"
    /\ step.answers = <<"2", "y">>
    /\ step.did = <<Did("conda --version", FALSE), Did("manual instructions", TRUE),
                    Did("conda --version", TRUE)>>

\* C31: on a Windows host without Conda, when the operator chooses the
\* manual installation, confirms it, and conda --version then detects
\* Conda, ensure_conda_installed succeeds and the run goes on under the
\* Conda backend instead of aborting.
C31_ManualInstallContinues ==
    ManualInstallDetected =>
        /\ step.ok
        /\ obj.use_conda
        /\ ~Aborted
        /\ pc = "fetch"

\* ------------------------------------------------------------------------
\* C32.  The pip check of the host interpreter.

\* The host interpreter was started for the first pip check and exited with
\* a nonzero status, as it does when the pip module is missing.
PipModuleMissing == step.name = "pip" /\ step.saw = {"nonzero"}

\* C32: under the venv backend, when the first pip check exits nonzero,
\* check_pip_installation runs ensurepip, and it returns true only when
\* ensurepip and the second pip check both succeed; otherwise it returns
\* false and the run ends with exit status 1 before fetch and provisioning.
C32_MissingPipIsBootstrapped ==
    PipModuleMissing =>
        /\ ~obj.use_conda
        /\ StepDid("ensurepip")
        /\ step.ok <=> step.did = <<Did("pip --version", FALSE), Did("ensurepip", TRUE),
                                    Did("pip --version", TRUE)>>
        /\ ~step.ok => Aborted
        /\ step.ok => pc = "fetch"

\* ------------------------------------------------------------------------
\* C33.  The command of the Verification stage.

\* Where the -c option stands in the command (0 when it has none): an
\* element of an argument list, a character group of a shell string.
OptionAt(call) ==
    LET v == call.command.val
        opt == IF call.command.type = "list" THEN T("-c") ELSE "-c"
        at == {k \in 1..Len(v) : v[k] = opt}
    IN IF at = {} THEN 0 ELSE CHOOSE k \in at : \A h \in at : k <= h

\* The words of the command before its -c option: the elements of an
\* argument list, the words a shell string splits into.
WordsBeforeOption(call) ==
    LET v == SubSeq(call.command.val, 1, OptionAt(call) - 1)
    IN IF call.command.type = "list" THEN v ELSE shlex_split(v).toks

\* What follows the -c option: the remaining elements of an argument list,
\* the rest of a shell string after the separating space.
AfterOption(call) ==
    LET v == call.command.val
    IN SubSeq(v, OptionAt(call) + (IF call.command.type = "list" THEN 1 ELSE 2), Len(v))

\* The inline check as the one argument after -c: an element of an argument
\* list, or quoted for the shell by list2cmdline or by shlex.quote.
InlineCheckArgument(call) ==
    IF call.command.type = "list" THEN {<<verify_py_code>>}
    ELSE {l2c_arg(verify_py_code), shlex_quote(verify_py_code)}

\* C33: for every backend and host variant (Conda, plain venv, toolchain
\* interpreter on Windows) the Verification command runs the environment's
\* interpreter with the inline import check as inline code (the interpreter
\* is the word before -c, the check the one argument after it), and never
\* hands the check to the pip module.
C33_VerificationRunsInterpreter ==
    verdict.stage = "Verification" =>
        LET words == WordsBeforeOption(last_call)
        IN /\ OptionAt(last_call) > 0
           /\ words # <<>>
           /\ words[Len(words)] \in {obj.python_executable, T("python")}
           /\ \A k \in 1..Len(words) : words[k] # T("pip")
           /\ AfterOption(last_call) \in InlineCheckArgument(last_call)

\* ------------------------------------------------------------------------
\* C34.  Nothing is installed before the environment is provisioned.

\* The points of the run up to the end of environment provisioning.
BeforeProvisioned ==
    {"main", "probe", "sysreq", "conda", "pip", "fetch", "env", "conda_create"}

\* The environment step has ended without success: it returned false (the
\* operator chose skip, the removal or the creation failed) or an exception
\* left it.
ProvisioningFailed == step.name = "env" /\ ~step.ok

\* No install command of the pipeline has been issued, no pipeline stage has
\* run, and no helper artifact has been written.
NothingInstalled ==
    /\ issued = <<>>
    /\ events = <<>>
    /\ last_call = NoCall
    /\ deps_result = "unset"
    /\ artifacts = {}

\* C34 as claimed: no install command is issued before provisioning has
\* returned success, and whenever provisioning fails or the operator skips an
\* existing environment the run ends with exit status 1, no pipeline stage
\* executed and no helper artifact written.
C34_FailedProvisioningExitsOne ==
    /\ pc \in BeforeProvisioned => NothingInstalled
    /\ ProvisioningFailed =>
          /\ NothingInstalled
          /\ Aborted

\* C34, amended: no install command is issued, no pipeline stage runs and no
\* helper artifact is written before provisioning has returned success, and
\* the run leaves the steps before the pipeline only through a successful
\* environment step or by ending.  When provisioning returns false the run
\* ends with exit status 1; when an exception leaves it (registry output of
\* an unexpected shape) the run ends with exit status 2; in both cases
\* nothing is installed and nothing is written.
C34_NothingBeforeProvisioning ==
    /\ [](pc \in BeforeProvisioned => NothingInstalled)
    /\ [](ProvisioningFailed =>
            /\ NothingInstalled
            /\ pc \in {"main_exit", "exited"}
            /\ rs_result = (IF "malformed" \in step.saw THEN "exception" ELSE "false")
            /\ pc = "exited" =>
                  exit_code = (IF "malformed" \in step.saw THEN 2 ELSE 1))
    /\ [][(pc \in BeforeProvisioned /\ pc' \notin BeforeProvisioned \cup {"main_exit"})
             => (pc' = "deps" /\ step'.name = "env" /\ step'.ok = TRUE)]_vars

\* A run that is over, with exit status 1, after the operator chose to skip
\* an existing environment.
C34_ExitedAfterSkip ==
    /\ step.name = "env"
    /\ step.answers = <<"s">>
    /\ ~step.ok
    /\ NothingInstalled
    /\ Exited(1)

====
